---- MODULE Spec2Model ----
(***************************************************************************)
(* ScopeDoom: the DOOM <-> renderer bridge.                                *)
(*                                                                         *)
(* doom_socket.c is modelled at the granularity of its system calls: every *)
(* read(), write(), socket(), connect(), select() and close() is one step, *)
(* so that short reads, short writes, errors, a peer that stalls and a     *)
(* peer that closes can happen between any two of them.                    *)
(*                                                                         *)
(* Byte streams are sequences of bytes (0..255).  The inbound stream is    *)
(* kept run-length encoded, as a sequence of <<byte, count>> runs, so that *)
(* a payload of 65535 or 65536 bytes is one run.                           *)
(***************************************************************************)
EXTENDS Integers, Sequences, FiniteSets, TLC

(***************************************************************************)
(* Bounds of the model.                                                    *)
(***************************************************************************)
\* send calls (doom_socket_send_frame / doom_socket_send_message) per run
MaxSends == 1
\* send calls per run where only the outbound direction is looked at
MaxWireSends == 2
\* doom_socket_recv_key calls per run
MaxPolls == 1
\* doom_socket_recv_key calls per run where only the inbound direction is
\* looked at
MaxRecvs == 2
\* segments in which the peer delivers its bytes
MaxDeliveries == 2
\* longest payload a caller hands to a send call
MaxPayload == 2
\* ticks of DG_DrawFrame per run of the game
MaxFrames == 3
\* key events SDL hands to the game per run
MaxSdlEvents == 2
\* key events SDL hands to the game where the key queue is looked at
MaxKeyStrokes == 17
\* drawsegs and vissprites of a scene
MaxWalls == 2
MaxSprites == 2
\* steps in which the scales from 0x800 to 0x20000 are sampled
MaxScaleSteps == 300

(***************************************************************************)
(* doom_socket.h: message tags.                                            *)
(***************************************************************************)
MSG_FRAME_DATA == 1
MSG_KEY_EVENT == 2
MSG_INIT_COMPLETE == 3
MSG_SHUTDOWN == 4
MSG_SCREENSHOT == 5

\* sizeof(json_buf) in doom_socket_recv_key
JSON_BUF_SIZE == 256
\* doomgeneric_kicad_dual_v2.c: slots of the key queue
KEYQUEUE_SIZE == 16
\* sizeof(json_buf) in extract_vectors_to_json
JSON_BUF_BYTES == 262144
\* m_fixed.h: the fractional bits of fixed_t, and 1.0
FRACBITS == 16
FRACUNIT == 65536
\* the scales between which the depth bucket is interpolated
SCALE_NEAR == 131072
SCALE_FAR == 2048
\* the smallest "height" of an entity
MIN_SPRITE_HEIGHT == 5
\* the drain limit of doom_socket_recv_key for messages it does not know
DISCARD_LIMIT == 65536

(***************************************************************************)
(* Native 32-bit integers on the wire.  Both ends run on one host; the     *)
(* model fixes the host's byte order to little-endian.  Every value the    *)
(* model encodes or decodes is below 2^31.                                 *)
(***************************************************************************)
EncodeU32(v) ==
    << v % 256, (v \div 256) % 256, (v \div 65536) % 256, (v \div 16777216) % 256 >>

\* stands for every value from 2^31 on: the code compares such a value with
\* tags and limits far below it, and no script makes it a byte count
Huge == 127 * 16777216 + 16777215

DecodeU32(b) ==
    IF b[4] >= 128 THEN Huge
    ELSE b[1] + 256 * b[2] + 65536 * b[3] + 16777216 * b[4]

(***************************************************************************)
(* Run-length encoded byte streams.                                        *)
(***************************************************************************)
Run(b, n) == IF n = 0 THEN << >> ELSE << <<b, n>> >>

Plain(bytes) == [i \in 1..Len(bytes) |-> <<bytes[i], 1>>]

RECURSIVE SLen(_)
SLen(s) == IF s = << >> THEN 0 ELSE s[1][2] + SLen(Tail(s))

\* the stream without its first k bytes (k <= SLen(s))
RECURSIVE SDrop(_, _)
SDrop(s, k) ==
    IF k = 0 \/ s = << >> THEN s
    ELSE IF s[1][2] <= k THEN SDrop(Tail(s), k - s[1][2])
    ELSE << <<s[1][1], s[1][2] - k>> >> \o Tail(s)

\* the first k bytes of the stream, as runs (k <= SLen(s))
RECURSIVE STake(_, _)
STake(s, k) ==
    IF k = 0 \/ s = << >> THEN << >>
    ELSE IF s[1][2] <= k THEN << s[1] >> \o STake(Tail(s), k - s[1][2])
    ELSE << <<s[1][1], k>> >>

\* the bytes of a (short) stream, one by one
RECURSIVE SBytes(_)
SBytes(s) ==
    IF s = << >> THEN << >>
    ELSE [i \in 1..s[1][2] |-> s[1][1]] \o SBytes(Tail(s))

Min(a, b) == IF a <= b THEN a ELSE b

\* a stream followed by another, with the runs that meet merged
SCat(a, b) ==
    IF a = << >> THEN b
    ELSE IF b = << >> THEN a
    ELSE IF a[Len(a)][1] = b[1][1]
         THEN SubSeq(a, 1, Len(a) - 1)
              \o << <<b[1][1], a[Len(a)][2] + b[1][2]>> >>
              \o Tail(b)
         ELSE a \o b

RECURSIVE Norm(_)
Norm(s) == IF s = << >> THEN << >> ELSE SCat(<< s[1] >>, Norm(Tail(s)))

(***************************************************************************)
(* The peer: what it may put on the stream after it accepts.               *)
(***************************************************************************)
\* a message as the peer writes it: header, then a body (runs)
PeerMsg(tag, len, body) ==
    Norm(Plain(EncodeU32(tag) \o EncodeU32(len)) \o body)

\* the ASCII text "key":7
KeyText == << 34, 107, 101, 121, 34, 58, 55 >>
\* a tag the bridge does not know
UnknownTag == MSG_SCREENSHOT + 2

\* the handshake the bridge expects, without and with a payload
InitEmpty == PeerMsg(MSG_INIT_COMPLETE, 0, << >>)
InitFull == PeerMsg(MSG_INIT_COMPLETE, 2, Run(4, 2))
\* a peer that opens with a key event
InitWrong == PeerMsg(MSG_KEY_EVENT, 0, << >>)
\* a key event with the text "key":7
KeyMsg == PeerMsg(MSG_KEY_EVENT, Len(KeyText), Plain(KeyText))

ShutdownMsg == PeerMsg(MSG_SHUTDOWN, 0, << >>)
\* a message the bridge does not know, with a short payload
UnknownMsg == PeerMsg(UnknownTag, 2, Run(9, 2))
\* the largest payload that is drained
UnknownMost == PeerMsg(UnknownTag, DISCARD_LIMIT - 1, Run(9, DISCARD_LIMIT - 1))
\* the smallest payload that is not drained; it begins with the eight bytes
\* of the header of an empty KEY_EVENT
UnknownOver ==
    PeerMsg(UnknownTag, DISCARD_LIMIT,
            SCat(Plain(EncodeU32(MSG_KEY_EVENT) \o EncodeU32(0)),
                 Run(0, DISCARD_LIMIT - 8)))
\* a key event one byte too long for json_buf
KeyOver == PeerMsg(MSG_KEY_EVENT, JSON_BUF_SIZE, Run(32, JSON_BUF_SIZE))

\* what the peer sends where the handshake is looked at
ConnectScripts == { InitEmpty, InitFull, SCat(InitFull, KeyMsg), InitWrong }

\* what the peer sends where doom_socket_recv_key is looked at
RecvScripts ==
    { SCat(InitEmpty, r) :
        r \in { << >>, KeyMsg, ShutdownMsg, UnknownMsg, KeyOver, UnknownOver,
                SCat(UnknownMost, PeerMsg(MSG_KEY_EVENT, 0, << >>)) } }

\* what the peer sends where every function of doom_socket.h is called
Scripts == { InitEmpty, InitWrong }

\* a peer that completes the handshake and then shuts down
ShutdownScripts == { SCat(InitEmpty, ShutdownMsg) }

\* how many bytes one delivery of the peer may carry, of rem left to send
DeliverCounts(rem) == { k \in {1, 8, 9, rem} : 1 <= k /\ k <= rem }

(***************************************************************************)
(* The renderer's scratch state as extract_vectors_to_json reads it.       *)
(* A drawseg: x1, x2, curline (is ds->curline there), frontsector (is      *)
(* seg->frontsector there), scale1, scale2, ceilingheight, floorheight,    *)
(* silhouette.  A vissprite: x1, x2, scale, gzt, gz, mobjtype.  The weapon *)
(* slot: state (is weapon_psp->state there), sx, sy.                       *)
(***************************************************************************)
\* no wall, no sprite, no weapon, the full view
NoScene ==
    [ viewwidth |-> 320, viewheight |-> 200, centeryfrac |-> 100 * FRACUNIT,
      viewz |-> 41 * FRACUNIT, drawsegs |-> << >>, vissprites |-> << >>,
      weapon |-> [ state |-> FALSE, sx |-> 0, sy |-> 0 ] ]

\* json_buf before the first frame, and no frame serialized
EmptyBuf == [ buf |-> << >>, offset |-> 0, outside |-> FALSE ]

(***************************************************************************)
(* extract_vectors_to_json, the numbers.  fixed_t and int are 32 bits; the *)
(* scenes of the model keep every intermediate value inside 32 bits.       *)
(***************************************************************************)
\* m_fixed.h: ((int64_t) a * (int64_t) b) >> FRACBITS, the product split so
\* that no part of it leaves 32 bits for the values of the model
FixedMul(a, b) == (a \div FRACUNIT) * b + (((a % FRACUNIT) * b) \div FRACUNIT)

\* v >> FRACBITS on a signed value
ToPixels(v) == v \div FRACUNIT

\* a clamp that forgets the upper limit
Clamp_low(y, limit) == IF y < 0 THEN 0 ELSE y

\* if (y < 0) y = 0; if (y >= limit) y = limit - 1;
Clamp(y, limit) ==
    LET low == IF y < 0 THEN 0 ELSE y
    IN  IF low >= limit THEN limit - 1 ELSE low

\* if (scale <= 0) scale = 1;
PositiveScale(scale) == IF scale <= 0 THEN 1 ELSE scale

\* a bucket that divides by the near scale instead of the range of scales
distance_wide(scale) ==
    LET d == IF scale > SCALE_NEAR THEN 0
             ELSE IF scale < SCALE_FAR THEN 999
             ELSE 999 - ((scale - SCALE_FAR) * 999) \div SCALE_NEAR
        low == IF d < 0 THEN 0 ELSE d
    IN  IF low > 999 THEN 999 ELSE low

\* lines 153-162 and 218-227, of a scale already made positive
distance(scale) ==
    LET d == IF scale > SCALE_NEAR THEN 0
             ELSE IF scale < SCALE_FAR THEN 999
             ELSE 999 - ((scale - SCALE_FAR) * 999) \div (SCALE_NEAR - SCALE_FAR)
        low == IF d < 0 THEN 0 ELSE d
    IN  IF low > 999 THEN 999 ELSE low

\* centeryfrac - FixedMul(height - viewz, scale), in pixels, clamped
ProjectY(sc, height, scale) ==
    Clamp(ToPixels(sc.centeryfrac - FixedMul(height - sc.viewz, scale)),
          sc.viewheight)

\* a test that also skips the drawseg that is one column wide
wall_rejected_strict(sc, ds) ==
    \/ ds.x1 < 0 \/ ds.x2 < 0 \/ ds.x1 >= sc.viewwidth \/ ds.x2 >= sc.viewwidth
    \/ ds.x1 >= ds.x2
    \/ ~ds.curline
    \/ ~ds.frontsector

\* lines 137-144: the drawseg is skipped
wall_rejected(sc, ds) ==
    \/ ds.x1 < 0 \/ ds.x2 < 0 \/ ds.x1 >= sc.viewwidth \/ ds.x2 >= sc.viewwidth
    \/ ds.x1 > ds.x2
    \/ ~ds.curline
    \/ ~ds.frontsector

\* lines 146-188: x1, y1_top, y1_bottom, x2, y2_top, y2_bottom, distance,
\* silhouette
wall_tuple(sc, ds) ==
    LET scale1 == PositiveScale(ds.scale1)
        scale2 == PositiveScale(ds.scale2)
    IN  << ds.x1,
           ProjectY(sc, ds.ceilingheight, scale1),
           ProjectY(sc, ds.floorheight, scale1),
           ds.x2,
           ProjectY(sc, ds.ceilingheight, scale2),
           ProjectY(sc, ds.floorheight, scale2),
           distance(scale1),
           ds.silhouette >>

\* lines 210-212: the vissprite is skipped
sprite_rejected(sc, vis) ==
    vis.x1 < 0 \/ vis.x2 < 0 \/ vis.x1 >= sc.viewwidth \/ vis.x2 >= sc.viewwidth

\* lines 214-247: x, y_top, y_bottom, height, type, distance
entity_tuple(sc, vis) ==
    LET sprite_scale == PositiveScale(vis.scale)
        y_top == ProjectY(sc, vis.gzt, sprite_scale)
        y_bottom == ProjectY(sc, vis.gz, sprite_scale)
        sprite_height == y_bottom - y_top
    IN  << (vis.x1 + vis.x2) \div 2,
           y_top,
           y_bottom,
           IF sprite_height < MIN_SPRITE_HEIGHT THEN MIN_SPRITE_HEIGHT
           ELSE sprite_height,
           vis.mobjtype,
           distance(sprite_scale) >>

\* lines 264-271: wx, wy
weapon_xy(sc) ==
    << Clamp(ToPixels(sc.weapon.sx) + sc.viewwidth \div 2, sc.viewwidth),
       Clamp(ToPixels(sc.weapon.sy) + sc.viewheight - 32, sc.viewheight) >>

(***************************************************************************)
(* extract_vectors_to_json, the text.  A value of the serializer's state   *)
(* is json_buf up to its terminating NUL (buf), the int offset, and        *)
(* whether a write went past the end of json_buf (outside).                *)
(***************************************************************************)
\* %d of a value that is not negative
RECURSIVE Decimal(_)
Decimal(n) ==
    IF n < 10 THEN << 48 + n >> ELSE Decimal(n \div 10) \o << 48 + (n % 10) >>

\* %d
FormatInt(n) == IF n < 0 THEN << 45 >> \o Decimal(0 - n) ELSE Decimal(n)

\* {"frame":
FrameName == << 123, 34, 102, 114, 97, 109, 101, 34, 58 >>
\* ,"walls":[
WallsOpen == << 44, 34, 119, 97, 108, 108, 115, 34, 58, 91 >>
\* ],"entities":[
EntitiesOpen == << 93, 44, 34, 101, 110, 116, 105, 116, 105, 101, 115, 34, 58, 91 >>
\* ],"weapon":
WeaponOpen == << 93, 44, 34, 119, 101, 97, 112, 111, 110, 34, 58 >>
\* {"visible":false}
WeaponHidden == << 123, 34, 118, 105, 115, 105, 98, 108, 101, 34, 58, 102, 97, 108, 115, 101, 125 >>
\* ,"visible":true}
WeaponShown == << 44, 34, 118, 105, 115, 105, 98, 108, 101, 34, 58, 116, 114, 117, 101, 125 >>
\* the names of the fields of an entity, as the format of line 254 has them:
\* {"x":  ,"y_top":  ,"y_bottom":  ,"height":  ,"type":  ,"distance":
EntityNames ==
    << << 123, 34, 120, 34, 58 >>,
       << 44, 34, 121, 95, 116, 111, 112, 34, 58 >>,
       << 44, 34, 121, 95, 98, 111, 116, 116, 111, 109, 34, 58 >>,
       << 44, 34, 104, 101, 105, 103, 104, 116, 34, 58 >>,
       << 44, 34, 116, 121, 112, 101, 34, 58 >>,
       << 44, 34, 100, 105, 115, 116, 97, 110, 99, 101, 34, 58 >> >>
\* {"x":  and  ,"y":  of the weapon
WeaponNames == << << 123, 34, 120, 34, 58 >>, << 44, 34, 121, 34, 58 >> >>

Comma == << 44 >>

\* snprintf(json_buf + offset, sizeof(json_buf) - offset, ...) producing
\* text, and offset += its result.  The size is a size_t: with offset past
\* sizeof(json_buf) it wraps to a huge value and the text lands outside.
snprintf(st, text) ==
    LET size == JSON_BUF_BYTES - st.offset
        fits == IF Len(text) < size THEN Len(text) ELSE size - 1
    IN  [ buf |-> IF size <= 0 THEN st.buf ELSE st.buf \o SubSeq(text, 1, fits),
          offset |-> st.offset + Len(text),
          outside |-> st.outside \/ size < 0 ]

\* "[%d,%d,%d,%d,%d,%d,%d,%d]"
RECURSIVE JoinInts(_)
JoinInts(t) ==
    IF Len(t) = 1 THEN FormatInt(t[1])
    ELSE FormatInt(t[1]) \o Comma \o JoinInts(Tail(t))

wall_text(t) == << 91 >> \o JoinInts(t) \o << 93 >>

\* "{\"x\":%d,\"y_top\":%d,\"y_bottom\":%d,\"height\":%d,\"type\":%d,\"distance\":%d}"
RECURSIVE NamedInts(_, _)
NamedInts(names, t) ==
    IF t = << >> THEN << >>
    ELSE names[1] \o FormatInt(t[1]) \o NamedInts(Tail(names), Tail(t))

entity_text(t) == NamedInts(EntityNames, t) \o << 125 >>

\* lines 132-198, from drawsegs[i] on (i counts from 0)
RECURSIVE walls_loop(_, _, _, _)
walls_loop(sc, i, wall_output, st) ==
    IF i >= Len(sc.drawsegs) THEN st
    ELSE LET ds == sc.drawsegs[i + 1] IN
         IF wall_rejected(sc, ds) THEN walls_loop(sc, i + 1, wall_output, st)
         ELSE LET sep == IF wall_output > 0 THEN snprintf(st, Comma) ELSE st
              IN  walls_loop(sc, i + 1, wall_output + 1,
                             snprintf(sep, wall_text(wall_tuple(sc, ds))))

\* lines 205-256, from vissprites[i] on (i counts from 0)
RECURSIVE sprites_loop(_, _, _)
sprites_loop(sc, i, st) ==
    IF i >= Len(sc.vissprites) THEN st
    ELSE LET vis == sc.vissprites[i + 1] IN
         IF sprite_rejected(sc, vis) THEN sprites_loop(sc, i + 1, st)
         ELSE LET sep == IF i > 0 THEN snprintf(st, Comma) ELSE st
              IN  sprites_loop(sc, i + 1,
                               snprintf(sep, entity_text(entity_tuple(sc, vis))))

\* lines 264-278
weapon_text(sc) ==
    IF sc.weapon.state
    THEN NamedInts(WeaponNames, weapon_xy(sc)) \o WeaponShown
    ELSE WeaponHidden

\* a serializer that numbers the frames from 1
extract_vectors_to_json_next(frame, sc) ==
    LET open == snprintf([EmptyBuf EXCEPT !.offset = 0],
                         FrameName \o FormatInt(frame + 1) \o WallsOpen)
        walls == walls_loop(sc, 0, 0, open)
        mid == snprintf(walls, EntitiesOpen)
        sprites == sprites_loop(sc, 0, mid)
        weapon == snprintf(snprintf(sprites, WeaponOpen), weapon_text(sc))
    IN  snprintf(weapon, << 125 >>)

\* lines 121-284: json_buf and *out_len (offset) for frame g_frame_count
extract_vectors_to_json(frame, sc) ==
    LET open == snprintf([EmptyBuf EXCEPT !.offset = 0],
                         FrameName \o FormatInt(frame) \o WallsOpen)
        walls == walls_loop(sc, 0, 0, open)
        mid == snprintf(walls, EntitiesOpen)
        sprites == sprites_loop(sc, 0, mid)
        weapon == snprintf(snprintf(sprites, WeaponOpen), weapon_text(sc))
    IN  snprintf(weapon, << 125 >>)

(***************************************************************************)
(* State.                                                                  *)
(***************************************************************************)
VARIABLES
    g_socket_fd,   \* doom_socket.c: the process-wide descriptor, -1 when none
    pc,            \* where the bridge is inside doom_socket.c; "idle" between calls
    op,            \* the function of doom_socket.h called last
    ret,           \* what that call returned
    msg_type,      \* local of doom_socket_connect / doom_socket_recv_key
    payload_len,   \* local of doom_socket_connect / doom_socket_recv_key
    rx_total,      \* recv_exactly: total_read
    rx_buf,        \* recv_exactly: the bytes stored in the buffer so far
    tx_buf,        \* send_exactly: the bytes not yet accepted by write()
    tx_pay,        \* the payload the running send call still has to send
    tx_tag,        \* the tag of the running send call
    sock,          \* the kernel's socket: "none", "open", "conn", "closed"
    inb,           \* bytes that arrived and were not read yet (runs)
    peerTodo,      \* bytes the peer has still to deliver (runs)
    peerEof,       \* the peer closed its end
    deliveries,    \* deliveries of the peer so far
    out,           \* every byte a write() accepted, in order
    pressed,       \* the caller's variable behind int* pressed
    key,           \* the caller's variable behind unsigned char* key
    sentLog,       \* the send calls that returned 0: <<tag, payload>>
    sendFailed,    \* a send call returned -1
    sendsLeft,     \* send calls the caller may still make
    recvsLeft,     \* doom_socket_recv_key calls the caller may still make
    connects,      \* doom_socket_connect calls so far
    rdCount,       \* bytes read from the stream so far
    gpc,           \* where the game is: "lib" when the caller is not the game
    g_frame_count, \* doomgeneric_kicad_dual_v2.c: frames sent
    shotArmed,     \* DG_DrawFrame: last_screenshot_time != 0
    s_KeyQueue,           \* the key queue: slot -> (pressed << 8) | key
    s_KeyQueueWriteIndex,
    s_KeyQueueReadIndex,
    sdlLeft,       \* key events SDL may still hand to the game
    queued,        \* the calls of addKeyToQueue so far: << pressed, doom key >>
    got,           \* what DG_GetKey handed out so far: << pressed, doomKey >>
    scene,         \* what the renderer left for extract_vectors_to_json
    json           \* json_buf and the offset after extract_vectors_to_json

vars ==
    << g_socket_fd, pc, op, ret, msg_type, payload_len, rx_total, rx_buf,
       tx_buf, tx_pay, tx_tag, sock, inb, peerTodo, peerEof, deliveries, out,
       pressed, key, sentLog, sendFailed, sendsLeft, recvsLeft, connects, rdCount,
       gpc, g_frame_count, shotArmed, s_KeyQueue, s_KeyQueueWriteIndex,
       s_KeyQueueReadIndex, sdlLeft, queued, got, scene, json >>

serVars == << scene, json >>
keyVars ==
    << s_KeyQueue, s_KeyQueueWriteIndex, s_KeyQueueReadIndex, sdlLeft, queued, got >>
gameVars == << gpc, g_frame_count, shotArmed, keyVars, serVars >>
rxVars == << rx_total, rx_buf >>
txVars == << tx_buf, tx_pay, tx_tag >>
peerVars == << inb, peerTodo, peerEof, deliveries >>
callerVars == << pressed, key >>
budgetVars == << sendsLeft, recvsLeft >>
hdrVars == << msg_type, payload_len >>

\* before doom_socket_connect, facing a peer that will follow the script
InitWith(script, sends, recvs, caller, sdl, sc) ==
    /\ g_socket_fd = -1
    /\ pc = "idle"
    /\ op = "none"
    /\ ret = 0
    /\ msg_type = 0
    /\ payload_len = 0
    /\ rx_total = 0
    /\ rx_buf = << >>
    /\ tx_buf = << >>
    /\ tx_pay = << >>
    /\ tx_tag = 0
    /\ sock = "none"
    /\ inb = << >>
    /\ peerTodo = script
    /\ peerEof = FALSE
    /\ deliveries = 0
    /\ out = << >>
    /\ pressed = 2
    /\ key = 255
    /\ sentLog = << >>
    /\ sendFailed = FALSE
    /\ sendsLeft = sends
    /\ recvsLeft = recvs
    /\ connects = 0
    /\ rdCount = 0
    /\ gpc = caller
    /\ g_frame_count = 0
    /\ shotArmed = FALSE
    /\ s_KeyQueue = [i \in 0..(KEYQUEUE_SIZE - 1) |-> 0]
    /\ s_KeyQueueWriteIndex = 0
    /\ s_KeyQueueReadIndex = 0
    /\ sdlLeft = sdl
    /\ queued = << >>
    /\ got = << >>
    /\ scene = sc
    /\ json = EmptyBuf

Init == \E script \in Scripts : InitWith(script, MaxSends, MaxPolls, "lib", 0, NoScene)

InitConnect == \E script \in ConnectScripts : InitWith(script, 0, 0, "lib", 0, NoScene)

InitRecv == \E script \in RecvScripts : InitWith(script, 0, MaxRecvs, "lib", 0, NoScene)

InitWire == InitWith(InitEmpty, MaxWireSends, 0, "lib", 0, NoScene)

InitShutdown ==
    \E script \in ShutdownScripts : InitWith(script, MaxSends, MaxPolls, "lib", 0, NoScene)

(***************************************************************************)
(* The peer and the kernel.                                                *)
(***************************************************************************)
PeerSend ==
    /\ sock = "conn"
    /\ ~peerEof
    /\ peerTodo # << >>
    /\ deliveries < MaxDeliveries
    /\ \E k \in DeliverCounts(SLen(peerTodo)) :
          /\ inb' = SCat(inb, STake(peerTodo, k))
          /\ peerTodo' = SDrop(peerTodo, k)
    /\ deliveries' = deliveries + 1
    /\ UNCHANGED << gameVars, g_socket_fd, pc, op, ret, hdrVars, rxVars, txVars, sock,
                    peerEof, out, callerVars, sentLog, sendFailed, budgetVars, connects, rdCount >>

\* the peer closes; what it had not delivered is never sent
PeerClose ==
    /\ sock = "conn"
    /\ ~peerEof
    /\ peerEof' = TRUE
    /\ peerTodo' = << >>
    /\ UNCHANGED << gameVars, g_socket_fd, pc, op, ret, hdrVars, rxVars, txVars, sock,
                    inb, deliveries, out, callerVars, sentLog, sendFailed, budgetVars, connects,
                    rdCount >>

\* read(fd, buf, count) on the stream: -1 an error, 0 end of stream, else the
\* bytes that are there, up to count.  With nothing there and the peer still
\* connected the call waits: it has no result yet.
read(count) ==
    IF sock # "conn" THEN {-1}
    ELSE {-1} \cup (IF SLen(inb) > 0 THEN { Min(count, SLen(inb)) }
                    ELSE IF peerEof THEN {0} ELSE {})

\* write(fd, buf, count): -1 an error, 0, or the bytes accepted, 1..count
write(count) == IF sock # "conn" THEN {-1} ELSE {-1, 0} \cup (1..count)

\* select() with a zero timeout on the one descriptor: -1, 0 or 1
select ==
    IF sock # "conn" THEN {-1}
    ELSE {-1} \cup (IF SLen(inb) > 0 \/ peerEof THEN {1} ELSE {0})

\* the descriptors socket() may return
SockFds == {0, 3}

(***************************************************************************)
(* recv_exactly and send_exactly: what the loop does with one result r of  *)
(* read() or write(), when it still wants the given number of bytes.       *)
(***************************************************************************)
recv_exactly(want, r) ==
    IF r <= 0 THEN "fail" ELSE IF r < want THEN "more" ELSE "done"

\* send_exactly without its loop: one write() and the call is over
send_exactly_once(want, r) ==
    IF r <= 0 THEN "fail" ELSE "done"

send_exactly(want, r) ==
    IF r <= 0 THEN "fail" ELSE IF r < want THEN "more" ELSE "done"

\* the bytes a read of r bytes stores
Incoming(r) == SBytes(STake(inb, r))

\* a read took r bytes off the stream
Consume(r) ==
    /\ inb' = SDrop(inb, r)
    /\ rdCount' = rdCount + r

\* recv_exactly goes round its loop again: total_read += bytes_read.
\* keep says whether the caller looks at the buffer afterwards.
RxMore(r, keep) ==
    /\ rx_total' = rx_total + r
    /\ rx_buf' = IF keep THEN rx_buf \o Incoming(r) ELSE rx_buf

\* recv_exactly returned: its locals are gone
RxReset ==
    /\ rx_total' = 0
    /\ rx_buf' = << >>

\* a call of doom_socket.h returns v
Return(v) ==
    /\ pc' = "idle"
    /\ ret' = v

(***************************************************************************)
(* doom_socket_connect                                                     *)
(***************************************************************************)
\* a failure path that returns -1 and keeps the descriptor
connect_fail_leak ==
    /\ UNCHANGED << sock, g_socket_fd >>
    /\ Return(-1)

\* close(g_socket_fd); g_socket_fd = -1; return -1;
connect_fail ==
    /\ sock' = "closed"
    /\ g_socket_fd' = -1
    /\ Return(-1)

\* socket(), setsockopt(): lines 79-88.  The program connects once (DG_Init).
connect_begin ==
    /\ pc = "idle"
    /\ connects = 0
    /\ connects' = connects + 1
    /\ op' = "connect"
    /\ \E fd \in {-1} \cup SockFds :
          /\ g_socket_fd' = fd
          /\ IF fd < 0
             THEN Return(-1) /\ UNCHANGED sock
             ELSE pc' = "c_connect" /\ sock' = "open" /\ UNCHANGED ret
    /\ UNCHANGED << hdrVars, rxVars, txVars, peerVars, out, callerVars,
                    sentLog, sendFailed, budgetVars, rdCount >>

\* doom_socket_connect called by a caller that is not the game
doom_socket_connect ==
    /\ gpc = "lib"
    /\ connect_begin
    /\ UNCHANGED gameVars

\* connect(): lines 97-103
connect_connect ==
    /\ pc = "c_connect"
    /\ \/ connect_fail
       \/ /\ sock' = "conn"
          /\ pc' = "c_rd_type"
          /\ UNCHANGED << g_socket_fd, ret >>
    /\ UNCHANGED << gameVars, op, hdrVars, rxVars, txVars, peerVars, out, callerVars,
                    sentLog, sendFailed, budgetVars, connects, rdCount >>

\* recv_exactly(g_socket_fd, &msg_type, 4): lines 108-113
connect_read_type ==
    /\ pc = "c_rd_type"
    /\ \E r \in read(4 - rx_total) :
          LET how == recv_exactly(4 - rx_total, r) IN
          CASE how = "fail" ->
                 /\ connect_fail
                 /\ RxReset
                 /\ UNCHANGED << msg_type, inb, rdCount >>
            [] how = "more" ->
                 /\ Consume(r)
                 /\ RxMore(r, TRUE)
                 /\ UNCHANGED << g_socket_fd, pc, ret, sock, msg_type >>
            [] how = "done" ->
                 /\ Consume(r)
                 /\ RxReset
                 /\ msg_type' = DecodeU32(rx_buf \o Incoming(r))
                 /\ pc' = "c_rd_len"
                 /\ UNCHANGED << g_socket_fd, ret, sock >>
    /\ UNCHANGED << gameVars, op, payload_len, txVars, peerTodo, peerEof, deliveries, out,
                    callerVars, sentLog, sendFailed, budgetVars, connects >>

\* malloc(): whether it returns a buffer
malloc == BOOLEAN

\* recv_exactly(g_socket_fd, &payload_len, 4), the tag check and the start of
\* the discard: lines 115-133
connect_read_len ==
    /\ pc = "c_rd_len"
    /\ \E r \in read(4 - rx_total) :
          LET how == recv_exactly(4 - rx_total, r)
              len == DecodeU32(rx_buf \o Incoming(r))
          IN
          CASE how = "fail" ->
                 /\ connect_fail
                 /\ RxReset
                 /\ UNCHANGED << payload_len, inb, rdCount >>
            [] how = "more" ->
                 /\ Consume(r)
                 /\ RxMore(r, TRUE)
                 /\ UNCHANGED << g_socket_fd, pc, ret, sock, payload_len >>
            [] how = "done" ->
                 /\ Consume(r)
                 /\ RxReset
                 /\ payload_len' = len
                 /\ IF msg_type # MSG_INIT_COMPLETE
                    THEN connect_fail
                    ELSE /\ UNCHANGED << g_socket_fd, sock >>
                         /\ IF len > 0
                            THEN \E buf \in malloc :
                                   IF buf
                                   THEN pc' = "c_rd_pay" /\ UNCHANGED ret
                                   ELSE Return(0)
                            ELSE Return(0)
    /\ UNCHANGED << gameVars, op, msg_type, txVars, peerTodo, peerEof, deliveries, out,
                    callerVars, sentLog, sendFailed, budgetVars, connects >>

\* recv_exactly(g_socket_fd, discard_buf, payload_len), its result dropped:
\* lines 134-140
connect_discard ==
    /\ pc = "c_rd_pay"
    /\ \E r \in read(payload_len - rx_total) :
          LET how == recv_exactly(payload_len - rx_total, r) IN
          CASE how = "fail" ->
                 /\ RxReset
                 /\ Return(0)
                 /\ UNCHANGED << inb, rdCount >>
            [] how = "more" ->
                 /\ Consume(r)
                 /\ RxMore(r, FALSE)
                 /\ UNCHANGED << pc, ret >>
            [] how = "done" ->
                 /\ Consume(r)
                 /\ RxReset
                 /\ Return(0)
    /\ UNCHANGED << gameVars, g_socket_fd, op, hdrVars, txVars, sock, peerTodo, peerEof,
                    deliveries, out, callerVars, sentLog, sendFailed, budgetVars, connects >>

doom_socket_is_connected == IF g_socket_fd >= 0 THEN 1 ELSE 0

(***************************************************************************)
(* doom_socket_send_frame, doom_socket_send_message                        *)
(***************************************************************************)
\* what a caller may hand to a send call: "A", "AB", ...
Payloads == { [i \in 1..n |-> 64 + i] : n \in 0..MaxPayload }

\* header[0] = msg_type; header[1] = (uint32_t)len;
Header(tag, len) == EncodeU32(tag) \o EncodeU32(len)

\* the running send call returns v
Logged(v) ==
    IF v = 0
    THEN sentLog' = Append(sentLog, << tx_tag, tx_pay >>) /\ UNCHANGED sendFailed
    ELSE sendFailed' = TRUE /\ UNCHANGED sentLog

\* a send call that does not look at g_socket_fd
send_begin_unguarded(fn, tag, data) ==
    /\ pc = "idle"
    /\ op' = fn
    /\ pc' = "s_hdr"
    /\ tx_buf' = Header(tag, Len(data))
    /\ tx_pay' = data
    /\ tx_tag' = tag
    /\ UNCHANGED << ret, sentLog, sendFailed >>
    /\ UNCHANGED << g_socket_fd, hdrVars, rxVars, sock, peerVars, out,
                    callerVars, recvsLeft, connects, rdCount >>

\* the guard and the header of a send call: lines 146-153 and 285-292
send_begin(fn, tag, data) ==
    /\ pc = "idle"
    /\ op' = fn
    /\ IF g_socket_fd < 0
       THEN /\ Return(-1)
            /\ sendFailed' = TRUE
            /\ UNCHANGED << txVars, sentLog >>
       ELSE /\ pc' = "s_hdr"
            /\ tx_buf' = Header(tag, Len(data))
            /\ tx_pay' = data
            /\ tx_tag' = tag
            /\ UNCHANGED << ret, sentLog, sendFailed >>
    /\ UNCHANGED << g_socket_fd, hdrVars, rxVars, sock, peerVars, out,
                    callerVars, recvsLeft, connects, rdCount >>

\* a send call by a caller that is not the game
lib_send(fn, tag) ==
    /\ gpc = "lib"
    /\ sendsLeft > 0
    /\ sendsLeft' = sendsLeft - 1
    /\ \E data \in Payloads : send_begin(fn, tag, data)
    /\ UNCHANGED gameVars

doom_socket_send_frame == lib_send("send_frame", MSG_FRAME_DATA)

doom_socket_send_message == lib_send("send_message", MSG_SCREENSHOT)

\* send_exactly(g_socket_fd, header, 8), one write(): lines 156-159, 295-298.
\* send_exactly of an empty payload returns 0 without a write.
send_header ==
    /\ pc = "s_hdr"
    /\ \E r \in write(Len(tx_buf)) :
          LET how == send_exactly(Len(tx_buf), r) IN
          CASE how = "fail" ->
                 /\ Return(-1)
                 /\ Logged(-1)
                 /\ tx_buf' = << >>
                 /\ UNCHANGED out
            [] how = "more" ->
                 /\ out' = out \o SubSeq(tx_buf, 1, r)
                 /\ tx_buf' = SubSeq(tx_buf, r + 1, Len(tx_buf))
                 /\ UNCHANGED << pc, ret, sentLog, sendFailed >>
            [] how = "done" ->
                 /\ out' = out \o SubSeq(tx_buf, 1, r)
                 /\ IF tx_pay = << >>
                    THEN Return(0) /\ Logged(0) /\ tx_buf' = << >>
                    ELSE /\ pc' = "s_pay"
                         /\ tx_buf' = tx_pay
                         /\ UNCHANGED << ret, sentLog, sendFailed >>
    /\ UNCHANGED << gameVars, g_socket_fd, op, hdrVars, rxVars, tx_pay, tx_tag, sock,
                    peerVars, callerVars, budgetVars, connects, rdCount >>

\* send_exactly(g_socket_fd, json_data, len), one write(): lines 162-167,
\* 301-306
send_payload ==
    /\ pc = "s_pay"
    /\ \E r \in write(Len(tx_buf)) :
          LET how == send_exactly(Len(tx_buf), r) IN
          CASE how = "fail" ->
                 /\ Return(-1)
                 /\ Logged(-1)
                 /\ tx_buf' = << >>
                 /\ UNCHANGED out
            [] how = "more" ->
                 /\ out' = out \o SubSeq(tx_buf, 1, r)
                 /\ tx_buf' = SubSeq(tx_buf, r + 1, Len(tx_buf))
                 /\ UNCHANGED << pc, ret, sentLog, sendFailed >>
            [] how = "done" ->
                 /\ out' = out \o SubSeq(tx_buf, 1, r)
                 /\ tx_buf' = << >>
                 /\ Return(0)
                 /\ Logged(0)
    /\ UNCHANGED << gameVars, g_socket_fd, op, hdrVars, rxVars, tx_pay, tx_tag, sock,
                    peerVars, callerVars, budgetVars, connects, rdCount >>

(***************************************************************************)
(* doom_socket_recv_key                                                    *)
(***************************************************************************)
\* the C string in json_buf: the bytes before the first NUL
CStr(b) ==
    LET n == CHOOSE k \in 0..Len(b) :
                 /\ \A i \in 1..k : b[i] # 0
                 /\ (k = Len(b) \/ b[k + 1] = 0)
    IN  SubSeq(b, 1, n)

\* strstr(): where needle first occurs in hay at or after from; 0 if nowhere
strstr(hay, needle, from) ==
    LET hits == { i \in from..(Len(hay) - Len(needle) + 1) :
                    SubSeq(hay, i, i + Len(needle) - 1) = needle }
    IN  IF hits = {} THEN 0 ELSE CHOOSE i \in hits : \A j \in hits : i <= j

\* the text from position i on
From(str, i) == SubSeq(str, i, Len(str))

IsDigit(c) == 48 <= c /\ c <= 57
IsSpace(c) == c = 32 \/ (9 <= c /\ c <= 13)

RECURSIVE Digits(_, _)
Digits(str, acc) ==
    IF str = << >> \/ ~IsDigit(str[1]) THEN acc
    ELSE Digits(Tail(str), 10 * acc + (str[1] - 48))

SkipWhile(str, blanks) ==
    LET n == CHOOSE k \in 0..Len(str) :
                 /\ \A i \in 1..k : str[i] \in blanks
                 /\ (k = Len(str) \/ str[k + 1] \notin blanks)
    IN  SubSeq(str, n + 1, Len(str))

\* atoi(): white space, an optional sign, decimal digits
atoi(str) ==
    LET t == SkipWhile(str, {9, 10, 11, 12, 13, 32}) IN
    IF t = << >> THEN 0
    ELSE IF t[1] = 45 THEN 0 - Digits(Tail(t), 0)
    ELSE IF t[1] = 43 THEN Digits(Tail(t), 0)
    ELSE Digits(t, 0)

\* "pressed":   "key":   true
PressedName == << 34, 112, 114, 101, 115, 115, 101, 100, 34, 58 >>
KeyName == << 34, 107, 101, 121, 34, 58 >>
TrueText == << 116, 114, 117, 101 >>

\* lines 229-244: pressed_val
ParsePressed(payload) ==
    LET str == CStr(payload)
        at == strstr(str, PressedName, 1)
    IN  IF at # 0 /\ strstr(From(str, at), TrueText, 1) # 0 THEN 1 ELSE 0

\* lines 246-259: (unsigned char)key_val
ParseKey(payload) ==
    LET str == CStr(payload)
        at == strstr(str, KeyName, 1)
    IN  IF at = 0 THEN 0
        ELSE atoi(SkipWhile(From(str, at + 6), {32, 9})) % 256

\* lines 258-261
deliver_key(payload) ==
    /\ pressed' = ParsePressed(payload)
    /\ key' = ParseKey(payload)
    /\ Return(1)

\* a call that clears the outputs when no data is there
doom_socket_recv_key_clear ==
    /\ gpc = "lib"
    /\ pc = "idle"
    /\ recvsLeft > 0
    /\ recvsLeft' = recvsLeft - 1
    /\ op' = "recv_key"
    /\ IF g_socket_fd < 0
       THEN Return(0) /\ UNCHANGED callerVars
       ELSE \E ready \in select :
              IF ready <= 0 THEN Return(0) /\ pressed' = 0 /\ key' = 0
              ELSE pc' = "k_rd_type" /\ UNCHANGED << ret, callerVars >>
    /\ msg_type' = 0
    /\ payload_len' = 0
    /\ UNCHANGED << gameVars, g_socket_fd, rxVars, txVars, sock, peerVars, out,
                    sentLog, sendFailed, sendsLeft, connects, rdCount >>

\* the guard and select(): lines 177-191
doom_socket_recv_key ==
    /\ gpc = "lib"
    /\ pc = "idle"
    /\ recvsLeft > 0
    /\ recvsLeft' = recvsLeft - 1
    /\ op' = "recv_key"
    /\ IF g_socket_fd < 0
       THEN Return(0)
       ELSE \E ready \in select :
              IF ready <= 0 THEN Return(0)
              ELSE pc' = "k_rd_type" /\ UNCHANGED ret
    /\ msg_type' = 0
    /\ payload_len' = 0
    /\ UNCHANGED << gameVars, g_socket_fd, rxVars, txVars, sock, peerVars, out,
                    callerVars, sentLog, sendFailed, sendsLeft, connects,
                    rdCount >>

\* recv_exactly(g_socket_fd, &msg_type, 4): lines 194-196
recv_key_read_type ==
    /\ pc = "k_rd_type"
    /\ \E r \in read(4 - rx_total) :
          LET how == recv_exactly(4 - rx_total, r) IN
          CASE how = "fail" ->
                 /\ RxReset
                 /\ Return(-1)
                 /\ UNCHANGED << msg_type, inb, rdCount >>
            [] how = "more" ->
                 /\ Consume(r)
                 /\ RxMore(r, TRUE)
                 /\ UNCHANGED << pc, ret, msg_type >>
            [] how = "done" ->
                 /\ Consume(r)
                 /\ RxReset
                 /\ msg_type' = DecodeU32(rx_buf \o Incoming(r))
                 /\ pc' = "k_rd_len"
                 /\ UNCHANGED ret
    /\ UNCHANGED << gameVars, g_socket_fd, op, payload_len, txVars, sock, peerTodo,
                    peerEof, deliveries, out, callerVars, sentLog, sendFailed, budgetVars,
                    connects >>

\* a dispatch that lets a key event of sizeof(json_buf) bytes through
recv_key_dispatch_loose(len) ==
    IF msg_type = MSG_SHUTDOWN
    THEN Return(-1) /\ UNCHANGED callerVars
    ELSE IF msg_type # MSG_KEY_EVENT
    THEN /\ UNCHANGED callerVars
         /\ IF len > 0 /\ len < DISCARD_LIMIT
            THEN \E buf \in malloc :
                   IF buf
                   THEN pc' = "k_rd_discard" /\ UNCHANGED ret
                   ELSE Return(0)
            ELSE Return(0)
    ELSE IF len > JSON_BUF_SIZE
    THEN Return(-1) /\ UNCHANGED callerVars
    ELSE IF len = 0
    THEN deliver_key(<< >>)
    ELSE pc' = "k_rd_json" /\ UNCHANGED << ret, callerVars >>

\* what follows the header: lines 203-224, and 226-261 for an empty key event
recv_key_dispatch(len) ==
    IF msg_type = MSG_SHUTDOWN
    THEN Return(-1) /\ UNCHANGED callerVars
    ELSE IF msg_type # MSG_KEY_EVENT
    THEN /\ UNCHANGED callerVars
         /\ IF len > 0 /\ len < DISCARD_LIMIT
            THEN \E buf \in malloc :
                   IF buf
                   THEN pc' = "k_rd_discard" /\ UNCHANGED ret
                   ELSE Return(0)
            ELSE Return(0)
    ELSE IF len >= JSON_BUF_SIZE
    THEN Return(-1) /\ UNCHANGED callerVars
    ELSE IF len = 0
    THEN deliver_key(<< >>)
    ELSE pc' = "k_rd_json" /\ UNCHANGED << ret, callerVars >>

\* recv_exactly(g_socket_fd, &payload_len, 4): lines 198-200
recv_key_read_len ==
    /\ pc = "k_rd_len"
    /\ \E r \in read(4 - rx_total) :
          LET how == recv_exactly(4 - rx_total, r)
              len == DecodeU32(rx_buf \o Incoming(r))
          IN
          CASE how = "fail" ->
                 /\ RxReset
                 /\ Return(-1)
                 /\ UNCHANGED << payload_len, inb, rdCount, callerVars >>
            [] how = "more" ->
                 /\ Consume(r)
                 /\ RxMore(r, TRUE)
                 /\ UNCHANGED << pc, ret, payload_len, callerVars >>
            [] how = "done" ->
                 /\ Consume(r)
                 /\ RxReset
                 /\ payload_len' = len
                 /\ recv_key_dispatch(len)
    /\ UNCHANGED << gameVars, g_socket_fd, op, msg_type, txVars, sock, peerTodo, peerEof,
                    deliveries, out, sentLog, sendFailed, budgetVars, connects >>

\* recv_exactly(g_socket_fd, discard_buf, payload_len), its result dropped:
\* lines 213-217
recv_key_discard ==
    /\ pc = "k_rd_discard"
    /\ \E r \in read(payload_len - rx_total) :
          LET how == recv_exactly(payload_len - rx_total, r) IN
          CASE how = "fail" ->
                 /\ RxReset
                 /\ Return(0)
                 /\ UNCHANGED << inb, rdCount >>
            [] how = "more" ->
                 /\ Consume(r)
                 /\ RxMore(r, FALSE)
                 /\ UNCHANGED << pc, ret >>
            [] how = "done" ->
                 /\ Consume(r)
                 /\ RxReset
                 /\ Return(0)
    /\ UNCHANGED << gameVars, g_socket_fd, op, hdrVars, txVars, sock, peerTodo, peerEof,
                    deliveries, out, callerVars, sentLog, sendFailed, budgetVars, connects >>

\* recv_exactly(g_socket_fd, json_buf, payload_len) and the parse:
\* lines 226-261
recv_key_read_json ==
    /\ pc = "k_rd_json"
    /\ \E r \in read(payload_len - rx_total) :
          LET how == recv_exactly(payload_len - rx_total, r) IN
          CASE how = "fail" ->
                 /\ RxReset
                 /\ Return(-1)
                 /\ UNCHANGED << inb, rdCount, callerVars >>
            [] how = "more" ->
                 /\ Consume(r)
                 /\ RxMore(r, TRUE)
                 /\ UNCHANGED << pc, ret, callerVars >>
            [] how = "done" ->
                 /\ Consume(r)
                 /\ RxReset
                 /\ deliver_key(rx_buf \o Incoming(r))
    /\ UNCHANGED << gameVars, g_socket_fd, op, hdrVars, txVars, sock, peerTodo, peerEof,
                    deliveries, out, sentLog, sendFailed, budgetVars, connects >>

(***************************************************************************)
(* doom_socket_close                                                       *)
(***************************************************************************)
\* a close that releases the socket and keeps g_socket_fd
doom_socket_close_keep_fd ==
    /\ gpc = "lib"
    /\ pc = "idle"
    /\ op' = "close"
    /\ ret' = 0
    /\ IF g_socket_fd >= 0
       THEN /\ \E r \in write(8) :
                 out' = IF r <= 0 THEN out
                        ELSE out \o SubSeq(Header(MSG_SHUTDOWN, 0), 1, r)
            /\ sock' = "closed"
            /\ UNCHANGED g_socket_fd
       ELSE UNCHANGED << out, sock, g_socket_fd >>
    /\ UNCHANGED << gameVars, pc, hdrVars, rxVars, txVars, peerVars, callerVars,
                    sentLog, sendFailed, budgetVars, connects, rdCount >>

\* lines 265-275: one write() of the SHUTDOWN header, its result dropped
doom_socket_close ==
    /\ gpc = "lib"
    /\ pc = "idle"
    /\ op' = "close"
    /\ ret' = 0
    /\ IF g_socket_fd >= 0
       THEN /\ \E r \in write(8) :
                 out' = IF r <= 0 THEN out
                        ELSE out \o SubSeq(Header(MSG_SHUTDOWN, 0), 1, r)
            /\ sock' = "closed"
            /\ g_socket_fd' = -1
       ELSE UNCHANGED << out, sock, g_socket_fd >>
    /\ UNCHANGED << gameVars, pc, hdrVars, rxVars, txVars, peerVars, callerVars,
                    sentLog, sendFailed, budgetVars, connects, rdCount >>

(***************************************************************************)
(* Spec: every function of doom_socket.h, called in any order by one       *)
(* thread, with a peer that completes the handshake or opens with the      *)
(* wrong message, and sends nothing else.                                  *)
(***************************************************************************)
Next ==
    \/ doom_socket_connect
    \/ connect_connect
    \/ connect_read_type
    \/ connect_read_len
    \/ doom_socket_send_frame
    \/ doom_socket_send_message
    \/ send_header
    \/ send_payload
    \/ doom_socket_recv_key
    \/ recv_key_read_type
    \/ doom_socket_close
    \/ PeerSend
    \/ PeerClose

Spec == Init /\ [][Next]_vars

(***************************************************************************)
(* SpecShutdown: the peer shuts down after the handshake; the bridge polls *)
(* and sends.                                                              *)
(***************************************************************************)
NextShutdown ==
    \/ doom_socket_connect
    \/ connect_connect
    \/ connect_read_type
    \/ connect_read_len
    \/ doom_socket_send_frame
    \/ doom_socket_send_message
    \/ send_header
    \/ send_payload
    \/ doom_socket_recv_key
    \/ recv_key_read_type
    \/ recv_key_read_len
    \/ PeerSend
    \/ PeerClose

SpecShutdown == InitShutdown /\ [][NextShutdown]_vars

(***************************************************************************)
(* SpecConnect: doom_socket_connect alone, with every handshake.           *)
(***************************************************************************)
NextConnect ==
    \/ doom_socket_connect
    \/ connect_connect
    \/ connect_read_type
    \/ connect_read_len
    \/ connect_discard
    \/ PeerSend
    \/ PeerClose

SpecConnect == InitConnect /\ [][NextConnect]_vars

(***************************************************************************)
(* SpecRecv: doom_socket_connect, then doom_socket_recv_key, with every    *)
(* kind of inbound message.                                                *)
(***************************************************************************)
NextRecv ==
    \/ doom_socket_connect
    \/ connect_connect
    \/ connect_read_type
    \/ connect_read_len
    \/ doom_socket_recv_key
    \/ recv_key_read_type
    \/ recv_key_read_len
    \/ recv_key_discard
    \/ recv_key_read_json
    \/ PeerSend
    \/ PeerClose

SpecRecv == InitRecv /\ [][NextRecv]_vars

(***************************************************************************)
(* SpecWire: doom_socket_connect, then send calls.                         *)
(***************************************************************************)
NextWire ==
    \/ doom_socket_connect
    \/ connect_connect
    \/ connect_read_type
    \/ connect_read_len
    \/ doom_socket_send_frame
    \/ doom_socket_send_message
    \/ send_header
    \/ send_payload
    \/ PeerSend

SpecWire == InitWire /\ [][NextWire]_vars

(***************************************************************************)
(* doomgeneric_kicad_dual_v2.c: the game.  DG_Init connects and every tick *)
(* of DG_DrawFrame sends one frame and, when 3 seconds have passed and the *)
(* screenshot was saved, one SCREENSHOT message.  What the screenshot      *)
(* message says is cut down to its braces.                                 *)
(***************************************************************************)
\* json_msg of DG_DrawFrame, lines 373-374, cut down to its braces
json_msg == << 123, 125 >>

\* what the peer sends to the game
GameScripts == { InitEmpty, SCat(InitEmpty, KeyMsg) }

InitGame == \E script \in GameScripts : InitWith(script, 0, 0, "boot", MaxSdlEvents, NoScene)

\* the game with a peer that only completes the handshake, and no key pressed
InitFrames == InitWith(InitEmpty, 0, 0, "boot", 0, NoScene)

\* exit(1): the process is gone, the kernel closes its socket
exit ==
    /\ gpc' = "exited"
    /\ sock' = IF sock = "none" THEN "none" ELSE "closed"

\* the key codes SDL reports in the model: SDLK_w
SdlKeys == { 119 }

\* the key events SDL_PollEvent may return in one call of handleKeyInput:
\* << pressed, keysym.sym >>, at most left of them
SdlEvents(left) ==
    UNION { [1..n -> {0, 1} \X SdlKeys] : n \in 0..left }

tolower(c) == IF 65 <= c /\ c <= 90 THEN c + 32 ELSE c

\* lines 63-94, the default branch: no key code of the model has a case
convertToDoomKey(keyCode) == tolower(keyCode) % 256

\* lines 96-102, on a queue and a write index: the two it leaves
addKeyToQueue(queue, writeIndex, isPressed, keyCode) ==
    LET keyData == (isPressed * 256 + convertToDoomKey(keyCode)) % 65536 IN
    [ queue |-> [queue EXCEPT ![writeIndex] = keyData],
      writeIndex |-> (writeIndex + 1) % KEYQUEUE_SIZE ]

\* lines 104-118 without SDL_QUIT: every pending event goes to the queue
RECURSIVE handleKeyInput(_, _, _)
handleKeyInput(queue, writeIndex, events) ==
    IF events = << >>
    THEN [ queue |-> queue, writeIndex |-> writeIndex ]
    ELSE LET q == addKeyToQueue(queue, writeIndex, events[1][1], events[1][2])
         IN  handleKeyInput(q.queue, q.writeIndex, Tail(events))

\* the calls of addKeyToQueue handleKeyInput makes for the events
Queued(events) ==
    [i \in 1..Len(events) |-> << events[i][1], convertToDoomKey(events[i][2]) >>]

\* DG_Init up to the call of doom_socket_connect: lines 286-311
DG_Init ==
    /\ gpc = "boot"
    /\ connect_begin
    /\ gpc' = "init"
    /\ UNCHANGED << g_frame_count, shotArmed, keyVars, serVars >>

\* DG_Init after doom_socket_connect returned: lines 311-319
DG_Init_connected ==
    /\ gpc = "init"
    /\ pc = "idle"
    /\ IF ret < 0 THEN exit ELSE gpc' = "loop" /\ UNCHANGED sock
    /\ UNCHANGED << g_socket_fd, pc, op, ret, hdrVars, rxVars, txVars, peerVars, out,
                    callerVars, sentLog, sendFailed, budgetVars, connects, rdCount,
                    g_frame_count, shotArmed, keyVars, serVars >>

\* DG_DrawFrame up to the call of doom_socket_send_frame: lines 325-327
DG_DrawFrame ==
    /\ gpc = "loop"
    /\ g_frame_count < MaxFrames
    /\ json' = extract_vectors_to_json(g_frame_count, scene)
    /\ send_begin("send_frame", MSG_FRAME_DATA, json'.buf)
    /\ gpc' = "frame"
    /\ UNCHANGED << sendsLeft, g_frame_count, shotArmed, keyVars, scene >>

\* the socket layer and the peer as a step of the game leaves them
libVars ==
    << g_socket_fd, pc, op, ret, hdrVars, rxVars, txVars, peerVars, out,
       callerVars, sentLog, sendFailed, recvsLeft, connects, rdCount >>

\* the screenshot part of DG_DrawFrame: lines 342-387.
\* due: 3 seconds have passed; saved: the surface was made and written.
screenshot ==
    IF ~shotArmed
    THEN /\ shotArmed' = TRUE
         /\ gpc' = "loop"
         /\ UNCHANGED << libVars, sock >>
    ELSE /\ UNCHANGED shotArmed
         /\ \E due \in BOOLEAN, saved \in BOOLEAN :
              IF due /\ saved
              THEN /\ send_begin("send_message", MSG_SCREENSHOT, json_msg)
                   /\ gpc' = "shot"
              ELSE /\ gpc' = "loop"
                   /\ UNCHANGED << libVars, sock >>

\* DG_DrawFrame after doom_socket_send_frame returned, up to the call of
\* doom_socket_send_message or the end of the tick: lines 327-387.
\* handleKeyInput takes the pending SDL events; quit: SDL_QUIT is one of them.
DG_DrawFrame_sent ==
    /\ gpc = "frame"
    /\ pc = "idle"
    /\ UNCHANGED << sendsLeft, s_KeyQueueReadIndex, got, serVars >>
    /\ IF ret < 0
       THEN /\ exit
            /\ UNCHANGED << libVars, g_frame_count, shotArmed, s_KeyQueue,
                            s_KeyQueueWriteIndex, sdlLeft, queued >>
       ELSE \E events \in SdlEvents(sdlLeft), quit \in BOOLEAN :
              LET q == handleKeyInput(s_KeyQueue, s_KeyQueueWriteIndex, events) IN
              /\ s_KeyQueue' = q.queue
              /\ s_KeyQueueWriteIndex' = q.writeIndex
              /\ sdlLeft' = sdlLeft - Len(events)
              /\ queued' = queued \o Queued(events)
              /\ IF quit
                 THEN /\ exit
                      /\ UNCHANGED << libVars, g_frame_count, shotArmed >>
                 ELSE /\ g_frame_count' = g_frame_count + 1
                      /\ screenshot

\* DG_DrawFrame after doom_socket_send_message returned: lines 375-397.
\* Either result is only printed.
DG_DrawFrame_shot ==
    /\ gpc = "shot"
    /\ pc = "idle"
    /\ gpc' = "loop"
    /\ UNCHANGED << libVars, sock, sendsLeft, g_frame_count, shotArmed, keyVars,
                    serVars >>

NextGame ==
    \/ DG_Init
    \/ connect_connect
    \/ connect_read_type
    \/ connect_read_len
    \/ DG_Init_connected
    \/ DG_DrawFrame
    \/ send_header
    \/ send_payload
    \/ DG_DrawFrame_sent
    \/ DG_DrawFrame_shot
    \/ PeerSend

SpecGame == InitGame /\ [][NextGame]_vars

SpecFrames == InitFrames /\ [][NextGame]_vars

(***************************************************************************)
(* SpecSerialize: extract_vectors_to_json on the scenes a renderer may     *)
(* leave: walls and sprites that are kept and that are skipped, in every   *)
(* order, in the full view and in a view of one pixel.                     *)
(***************************************************************************)
Drawseg(x1, x2, curline, frontsector, scale1, scale2, ceiling, floor, sil) ==
    [ x1 |-> x1, x2 |-> x2, curline |-> curline, frontsector |-> frontsector,
      scale1 |-> scale1, scale2 |-> scale2, ceilingheight |-> ceiling * FRACUNIT,
      floorheight |-> floor * FRACUNIT, silhouette |-> sil ]

Vissprite(x1, x2, scale, gzt, gz, mobjtype) ==
    [ x1 |-> x1, x2 |-> x2, scale |-> scale, gzt |-> gzt * FRACUNIT,
      gz |-> gz * FRACUNIT, mobjtype |-> mobjtype ]

\* a wall ahead; a wall one column wide, far at one end and near at the
\* other; a wall in column 0 with scales that are not positive; a wall with
\* x1 > x2; a wall that leaves the view on the left; a wall without a seg
SceneWalls ==
    { Drawseg(10, 30, TRUE, TRUE, FRACUNIT, FRACUNIT, 128, 0, 1),
      Drawseg(5, 5, TRUE, TRUE, SCALE_FAR, SCALE_NEAR, 512, -512, 2),
      Drawseg(0, 0, TRUE, TRUE, 0, -5, 64, 8, 3),
      Drawseg(30, 10, TRUE, TRUE, FRACUNIT, FRACUNIT, 128, 0, 0),
      Drawseg(-1, 7, TRUE, TRUE, FRACUNIT, FRACUNIT, 128, 0, 0),
      Drawseg(2, 4, FALSE, FALSE, FRACUNIT, FRACUNIT, 128, 0, 0) }

\* a sprite ahead; a sprite with x1 > x2 and no height; a sprite in column 0
\* whose top lies below its bottom; a sprite that leaves the view on the left
SceneSprites ==
    { Vissprite(100, 121, 66560, 56, 0, 1),
      Vissprite(50, 20, 3 * FRACUNIT, 41, 41, 2),
      Vissprite(0, 0, 0, 0, 64, -3),
      Vissprite(-1, 10, FRACUNIT, 56, 0, 4) }

\* the full view without a weapon, and a view of one pixel with one
SceneViews ==
    { NoScene,
      [ NoScene EXCEPT !.viewwidth = 1, !.viewheight = 1,
                       !.centeryfrac = FRACUNIT \div 2,
                       !.weapon = [ state |-> TRUE, sx |-> FRACUNIT,
                                    sy |-> 32 * FRACUNIT ] ] }

SeqsUpTo(S, n) == UNION { [1..k -> S] : k \in 0..n }

Scenes ==
    { [ view EXCEPT !.drawsegs = walls, !.vissprites = sprites ] :
        view \in SceneViews,
        walls \in SeqsUpTo(SceneWalls, MaxWalls),
        sprites \in SeqsUpTo(SceneSprites, MaxSprites) }

InitSerialize == \E sc \in Scenes : InitWith(InitEmpty, 0, 0, "render", 0, sc)

\* DG_DrawFrame, line 325: the frame is serialized
DG_DrawFrame_extract ==
    /\ gpc = "render"
    /\ json' = extract_vectors_to_json(g_frame_count, scene)
    /\ gpc' = "rendered"
    /\ UNCHANGED << libVars, sock, sendsLeft, g_frame_count, shotArmed, keyVars,
                    scene >>

NextSerialize == DG_DrawFrame_extract

SpecSerialize == InitSerialize /\ [][NextSerialize]_vars

(***************************************************************************)
(* SpecScale: extract_vectors_to_json on a wall and a sprite at eye level  *)
(* (so that the projection is 0 for every scale), over the scales: the     *)
(* ends of the 32-bit range, the neighbours of 0 and of both thresholds,   *)
(* the middle, and evenly spaced values between the thresholds.            *)
(***************************************************************************)
INT_MAX == 2147483647

ScaleSamples ==
    { 0 - INT_MAX, 0 - FRACUNIT, -1, 0, 1, SCALE_FAR - 1, SCALE_FAR + 1,
      66560, SCALE_NEAR - 1, SCALE_NEAR + 1, 4 * FRACUNIT, INT_MAX }
    \cup { SCALE_FAR + (k * (SCALE_NEAR - SCALE_FAR)) \div MaxScaleSteps :
             k \in 0..MaxScaleSteps }

ScaleScenes ==
    { [ NoScene EXCEPT
          !.drawsegs = << Drawseg(10, 30, TRUE, TRUE, s, s, 41, 41, 1) >>,
          !.vissprites = << Vissprite(100, 121, s, 41, 41, 1) >> ] :
        s \in ScaleSamples }

InitScale == \E sc \in ScaleScenes : InitWith(InitEmpty, 0, 0, "render", 0, sc)

SpecScale == InitScale /\ [][NextSerialize]_vars

(***************************************************************************)
(* SpecKeys: doom_socket_connect, then doom_socket_recv_key facing a peer  *)
(* that sends key events of every shape and length, and messages that are  *)
(* not key events behind a key event.                                      *)
(***************************************************************************)
\* {"pressed": true, "key": 97}
KeyExample == << 123, 34, 112, 114, 101, 115, 115, 101, 100, 34, 58, 32, 116, 114, 117, 101, 44, 32, 34, 107, 101, 121, 34, 58, 32, 57, 55, 125 >>
\* {"pressed": false, "key": 13}
KeyReleased == << 123, 34, 112, 114, 101, 115, 115, 101, 100, 34, 58, 32, 102, 97, 108, 115, 101, 44, 32, 34, 107, 101, 121, 34, 58, 32, 49, 51, 125 >>
\* {"key":300}
KeyWide == << 123, 34, 107, 101, 121, 34, 58, 51, 48, 48, 125 >>
\* {"key": <TAB>7}
KeyBlanks == << 123, 34, 107, 101, 121, 34, 58, 32, 9, 55, 125 >>
\* {"key":-1}
KeyNegative == << 123, 34, 107, 101, 121, 34, 58, 45, 49, 125 >>
\* {"true":1,"pressed":0}
KeyTrueFirst == << 123, 34, 116, 114, 117, 101, 34, 58, 49, 44, 34, 112, 114, 101, 115, 115, 101, 100, 34, 58, 48, 125 >>
\* {"pressed":false,"k":"true"}
KeyTrueLater == << 123, 34, 112, 114, 101, 115, 115, 101, 100, 34, 58, 102, 97, 108, 115, 101, 44, 34, 107, 34, 58, 34, 116, 114, 117, 101, 34, 125 >>

\* the texts of the key events of the model
KeyTexts ==
    { KeyExample, KeyReleased, KeyWide, KeyBlanks, KeyNegative, KeyTrueFirst,
      KeyTrueLater, << >> }

KeyEvent(text) == PeerMsg(MSG_KEY_EVENT, Len(text), Plain(text))

\* the longest key event that fits json_buf
KeyMost == PeerMsg(MSG_KEY_EVENT, JSON_BUF_SIZE - 1, Run(32, JSON_BUF_SIZE - 1))
\* the header of a key event with payload_len 2^31
KeyHuge == Plain(EncodeU32(MSG_KEY_EVENT) \o << 0, 0, 0, 128 >>)

KeyScripts ==
    { SCat(InitEmpty, KeyEvent(text)) : text \in KeyTexts }
    \cup { SCat(InitEmpty, r) : r \in { KeyMost, KeyOver, KeyHuge } }
    \cup { SCat(InitEmpty, SCat(KeyEvent(KeyExample), r)) :
             r \in { ShutdownMsg, UnknownMsg, KeyOver } }
    \cup { SCat(InitEmpty, SCat(KeyMost, KeyOver)) }

InitKeys == \E script \in KeyScripts : InitWith(script, 0, MaxRecvs, "lib", 0, NoScene)

SpecKeys == InitKeys /\ [][NextRecv]_vars

(***************************************************************************)
(* SpecQueue: the key queue between handleKeyInput, which puts the pending *)
(* SDL key events into it, and the engine, which calls DG_GetKey.  The     *)
(* k-th key event of a run is fixed: a letter, pressed and released in     *)
(* turn.                                                                   *)
(***************************************************************************)
\* the k-th key event SDL reports: << pressed, keysym.sym >>
KeyStroke(k) == << k % 2, 97 + (k % 26) >>

InitQueue == InitWith(InitEmpty, 0, 0, "keys", MaxKeyStrokes, NoScene)

\* handleKeyInput, lines 104-118, with n key events pending and no SDL_QUIT
handleKeyInput_keys ==
    /\ gpc = "keys"
    /\ \E n \in 1..sdlLeft :
          LET events == [i \in 1..n |-> KeyStroke(Len(queued) + i)]
              q == handleKeyInput(s_KeyQueue, s_KeyQueueWriteIndex, events)
          IN  /\ s_KeyQueue' = q.queue
              /\ s_KeyQueueWriteIndex' = q.writeIndex
              /\ sdlLeft' = sdlLeft - n
              /\ queued' = queued \o Queued(events)
    /\ op' = "handleKeyInput"
    /\ UNCHANGED << g_socket_fd, pc, ret, hdrVars, rxVars, txVars, sock, peerVars,
                    out, callerVars, sentLog, sendFailed, budgetVars, connects,
                    rdCount, gpc, g_frame_count, shotArmed, s_KeyQueueReadIndex,
                    got, serVars >>

\* DG_GetKey, lines 410-426
DG_GetKey ==
    /\ gpc = "keys"
    /\ op' = "DG_GetKey"
    /\ IF s_KeyQueueReadIndex = s_KeyQueueWriteIndex
       THEN /\ ret' = 0
            /\ UNCHANGED << s_KeyQueueReadIndex, callerVars, got >>
       ELSE LET keyData == s_KeyQueue[s_KeyQueueReadIndex] IN
            /\ s_KeyQueueReadIndex' = (s_KeyQueueReadIndex + 1) % KEYQUEUE_SIZE
            /\ pressed' = keyData \div 256
            /\ key' = keyData % 256
            /\ ret' = 1
            /\ got' = Append(got, << pressed', key' >>)
    /\ UNCHANGED << g_socket_fd, pc, hdrVars, rxVars, txVars, sock, peerVars, out,
                    sentLog, sendFailed, budgetVars, connects, rdCount, gpc,
                    g_frame_count, shotArmed, s_KeyQueue, s_KeyQueueWriteIndex,
                    sdlLeft, queued, serVars >>

NextQueue == handleKeyInput_keys \/ DG_GetKey

SpecQueue == InitQueue /\ [][NextQueue]_vars

(***************************************************************************)
(* Properties.                                                             *)
(***************************************************************************)
\* the wire image of a message, written out from the format of doom_socket.h:
\* [4 bytes: msg_type][4 bytes: payload_len][N bytes: payload]
FrameOf(m) == EncodeU32(m[1]) \o EncodeU32(Len(m[2])) \o m[2]

RECURSIVE FramesOf(_)
FramesOf(log) ==
    IF log = << >> THEN << >> ELSE FrameOf(log[1]) \o FramesOf(Tail(log))

\* a reader of the format: the <<tag, payload>> pairs of a byte sequence, and
\* <<"garbage">> in place of what is left when that is no whole message
RECURSIVE ReadFrames(_)
ReadFrames(bytes) ==
    IF bytes = << >> THEN << >>
    ELSE IF Len(bytes) < 8 THEN << "garbage" >>
    ELSE LET tag == DecodeU32(SubSeq(bytes, 1, 4))
             len == DecodeU32(SubSeq(bytes, 5, 8))
         IN  IF Len(bytes) < 8 + len THEN << "garbage" >>
             ELSE << << tag, SubSeq(bytes, 9, 8 + len) >> >>
                  \o ReadFrames(SubSeq(bytes, 9 + len, Len(bytes)))

\* the bytes of the running send call that write() has accepted
Accepted ==
    LET frame == FrameOf(<< tx_tag, tx_pay >>) IN
    IF pc = "s_hdr" THEN SubSeq(frame, 1, 8 - Len(tx_buf))
    ELSE IF pc = "s_pay" THEN SubSeq(frame, 1, Len(frame) - Len(tx_buf))
    ELSE << >>

\* C1: as long as no send call has failed, the bytes written are the frames
\* [tag][length][payload] of the send calls that returned, in call order,
\* followed by the accepted part of the frame of the running call, whatever
\* the short writes were; and between calls a reader of the format gets back
\* exactly the (tag, payload) pairs of the calls, one per call.
C1_WireIsTheFramesInOrder ==
    ~sendFailed =>
        /\ out = FramesOf(sentLog) \o Accepted
        /\ pc = "idle" => ReadFrames(out) = sentLog

\* C1 witness: a second send call, after a first one that returned 0, has
\* had all but the last byte of its two-byte payload accepted
C1_Witness ==
    /\ ~sendFailed
    /\ Len(sentLog) = 1
    /\ Len(sentLog[1][2]) > 0
    /\ pc = "s_pay"
    /\ Len(tx_pay) = 2
    /\ Len(tx_buf) = 1
    /\ tx_tag # sentLog[1][1]

(***************************************************************************)
(* doom_socket_connect has returned; nothing else has run (SpecConnect)    *)
(***************************************************************************)
ConnectReturned == pc = "idle" /\ op = "connect"

\* the bytes the peer has put on the stream so far
Delivered == rdCount + SLen(inb)

\* C2: doom_socket_connect returns 0, and doom_socket_is_connected is 1
\* afterwards, exactly when the socket connected and the first header read
\* carries INIT_COMPLETE; the handle is not connected before that header has
\* been read; and a successful connect has consumed the header and the
\* payload_len bytes after it, so the next read starts at the next header.
C2_SuccessIffInitCompleteConsumed ==
    /\ ConnectReturned =>
          /\ ret = 0 <=> (rdCount >= 8 /\ msg_type = MSG_INIT_COMPLETE)
          /\ ret = 0 <=> doom_socket_is_connected = 1
          /\ ret = 0 => rdCount = 8 + payload_len
    /\ (pc = "idle" /\ doom_socket_is_connected = 1) =>
          (rdCount >= 8 /\ msg_type = MSG_INIT_COMPLETE)

\* C3: when doom_socket_connect returns -1 (socket() failed, connect()
\* failed, the header could not be read, or the first tag is not
\* INIT_COMPLETE), doom_socket_is_connected is 0 and no socket is left open.
C3_FailedConnectIsDisconnected ==
    (ConnectReturned /\ ret = -1) =>
        /\ g_socket_fd < 0
        /\ doom_socket_is_connected = 0
        /\ sock \in {"none", "closed"}

\* the peer opened with KEY_EVENT and connect has rejected it
C3_Witness ==
    /\ ConnectReturned
    /\ ret = -1
    /\ rdCount = 8
    /\ msg_type = MSG_KEY_EVENT
    /\ sock = "closed"

\* C4: when the peer has closed the stream before delivering the whole
\* handshake message (the 8-byte header and the payload_len bytes it
\* announces), the doom_socket_connect that is reading it does not return 0.
C4_TruncatedHandshakeFails ==
    [][(/\ peerEof
        /\ pc' = "idle"
        /\ \/ pc \in {"c_rd_type", "c_rd_len"} /\ Delivered < 8
           \/ pc = "c_rd_pay" /\ Delivered < 8 + payload_len) => ret' # 0]_vars

(***************************************************************************)
(* SHUTDOWN from the peer (SpecShutdown)                                   *)
(***************************************************************************)
\* doom_socket_recv_key has read the whole header of the SHUTDOWN message
\* that follows the handshake
ShutdownRead == msg_type = MSG_SHUTDOWN /\ rdCount = SLen(InitEmpty) + 8

\* C5: once doom_socket_recv_key has read a SHUTDOWN header, it returns -1
\* and leaves its outputs alone, doom_socket_is_connected is 0, and every
\* send call made afterwards returns -1 without reaching a write().
C5_ShutdownDisconnects ==
    ShutdownRead =>
        /\ (pc = "idle" /\ op = "recv_key") => (ret = -1 /\ pressed = 2 /\ key = 255)
        /\ doom_socket_is_connected = 0
        /\ pc \notin {"s_hdr", "s_pay"}
        /\ (pc = "idle" /\ op \in {"send_frame", "send_message"}) => ret = -1

(***************************************************************************)
(* Calls on a handle that is not connected (Spec)                          *)
(***************************************************************************)
\* a step that is a call of doom_socket_send_frame or doom_socket_send_message
SendCall == sendsLeft' < sendsLeft

\* a step that is a call of doom_socket_recv_key
RecvCall == recvsLeft' < recvsLeft

\* C7: with g_socket_fd < 0 (before connect, after a failed connect, after
\* close) a send call returns -1 at once and writes nothing, and
\* doom_socket_recv_key returns 0 at once, reads no byte and leaves *pressed
\* and *key alone.
C7_DisconnectedCalls ==
    [][(pc = "idle" /\ g_socket_fd < 0) =>
          /\ SendCall => (pc' = "idle" /\ ret' = -1 /\ out' = out /\ sock' = sock)
          /\ RecvCall => /\ pc' = "idle"
                          /\ ret' = 0
                          /\ inb' = inb
                          /\ rdCount' = rdCount
                          /\ pressed' = pressed
                          /\ key' = key]_vars

\* after a connect that failed with bytes of the peer unread, a poll and then
\* a send have returned
C7_Witness ==
    /\ pc = "idle"
    /\ g_socket_fd < 0
    /\ connects = 1
    /\ sock = "closed"
    /\ SLen(inb) > 0
    /\ recvsLeft = 0
    /\ op \in {"send_frame", "send_message"}
    /\ ret = -1
    /\ out = << >>

\* a step that is a call of doom_socket_close
CloseCall ==
    /\ pc = "idle"
    /\ op' = "close"
    /\ UNCHANGED << peerVars, budgetVars, connects >>

\* C8: doom_socket_close on a connected handle appends at most one SHUTDOWN
\* header (tag 4, length 0) to the stream, whatever write() returns, closes
\* the socket and leaves g_socket_fd < 0; on a handle that is not connected
\* it writes nothing and changes nothing.
C8_CloseIsIdempotent ==
    [][CloseCall =>
          /\ pc' = "idle"
          /\ g_socket_fd' < 0
          /\ UNCHANGED << hdrVars, rxVars, txVars, callerVars, sentLog, sendFailed,
                          rdCount >>
          /\ IF g_socket_fd >= 0
             THEN /\ \E n \in 0..8 :
                       out' = out \o SubSeq(Header(MSG_SHUTDOWN, 0), 1, n)
                  /\ sock' = "closed"
             ELSE UNCHANGED << out, sock, g_socket_fd >>]_vars

\* a close has written the whole SHUTDOWN header behind a frame
C8_Witness ==
    /\ pc = "idle"
    /\ op = "close"
    /\ g_socket_fd < 0
    /\ sock = "closed"
    /\ Len(sentLog) = 1
    /\ out = FramesOf(sentLog) \o Header(MSG_SHUTDOWN, 0)

(***************************************************************************)
(* doom_socket_recv_key and the peer's pace and lengths (SpecRecv)         *)
(***************************************************************************)
\* doom_socket_recv_key is inside a read() that has nothing to return: no
\* byte is there and the peer keeps the connection open
RecvKeyWaits ==
    /\ pc \in {"k_rd_type", "k_rd_len", "k_rd_discard", "k_rd_json"}
    /\ sock = "conn"
    /\ SLen(inb) = 0
    /\ ~peerEof

\* C9: doom_socket_recv_key never waits for bytes: whatever the peer has
\* sent so far, a call is never inside a read() that can only return once
\* the peer sends more or closes.
C9_RecvKeyNeverBlocks == ~RecvKeyWaits

\* C10: a message whose tag is neither KEY_EVENT nor SHUTDOWN and whose
\* payload_len is 65536 or more makes doom_socket_recv_key return -1.
C10_OversizeUnknownIsFatal ==
    [][(/\ pc = "k_rd_len"
        /\ pc' = "idle"
        /\ rdCount' = rdCount + (4 - rx_total)
        /\ msg_type \notin {MSG_KEY_EVENT, MSG_SHUTDOWN}
        /\ payload_len' >= DISCARD_LIMIT) => ret' = -1]_vars

(***************************************************************************)
(* A send that failed, in the game (SpecGame)                              *)
(***************************************************************************)
\* C6: once doom_socket_send_frame or doom_socket_send_message has returned
\* -1, no further byte is written to the stream.
C6_FailedSendIsTerminal == [][sendFailed => out' = out]_vars

(***************************************************************************)
(* Messages doom_socket_recv_key does not know (SpecRecv)                  *)
(***************************************************************************)
\* the tag read by the running doom_socket_recv_key is one it ignores
IgnoredTag == msg_type \notin {MSG_KEY_EVENT, MSG_SHUTDOWN}

\* a step in which a read() of doom_socket_recv_key returned no byte and the
\* call returned
ReadFailed ==
    /\ pc \in {"k_rd_type", "k_rd_len", "k_rd_discard", "k_rd_json"}
    /\ pc' = "idle"
    /\ rdCount' = rdCount

\* C11: for a tag that is neither KEY_EVENT nor SHUTDOWN and a payload_len
\* in 0..65535, doom_socket_recv_key returns only after it has consumed the
\* 8-byte header and all payload_len payload bytes, and then returns 0
\* with *pressed and *key untouched.
C11_UnknownIsDrained ==
    [][/\ (/\ pc = "k_rd_len"
           /\ pc' = "idle"
           /\ rdCount' = rdCount + (4 - rx_total)
           /\ IgnoredTag
           /\ payload_len' < DISCARD_LIMIT)
          => (payload_len' = 0 /\ ret' = 0 /\ UNCHANGED callerVars)
       /\ (pc = "k_rd_discard" /\ pc' = "idle")
          => /\ rdCount' = rdCount + (payload_len - rx_total)
             /\ ret' = 0
             /\ UNCHANGED callerVars]_vars

\* C12: when a read() inside doom_socket_recv_key fails (the peer closed or
\* an error) before the whole message was read, the call returns -1,
\* whatever the kind of message.
C12_PartialMessageIsAnError == [][ReadFailed => ret' = -1]_vars

(***************************************************************************)
(* The ticks of the game (SpecGame)                                        *)
(***************************************************************************)
\* a whole KEY_EVENT message of the peer waits on the socket
PendingKey ==
    /\ SLen(inb) >= SLen(KeyMsg)
    /\ SBytes(STake(inb, SLen(KeyMsg))) = SBytes(KeyMsg)

\* a step that ends the part of a tick where the frame was sent and the
\* input is handled, the game going on
TickHandlesInput == gpc = "frame" /\ gpc' \in {"loop", "shot"}

\* C13: in a tick the FRAME_DATA message of that tick is written whole
\* before input is handled, and the tick then takes one waiting message of
\* the peer off the socket: a waiting KEY_EVENT is consumed and put on the
\* key queue.
C13_TickDrainsOneMessage ==
    [][(TickHandlesInput /\ PendingKey) =>
          /\ sentLog # << >>
          /\ sentLog[Len(sentLog)] =
                << MSG_FRAME_DATA, json.buf >>
          /\ rdCount' = rdCount + SLen(KeyMsg)
          /\ s_KeyQueueWriteIndex' # s_KeyQueueWriteIndex]_vars

\* the FRAME_DATA sends that returned 0, in order
FrameSends == SelectSeq(sentLog, LAMBDA m : m[1] = MSG_FRAME_DATA)

\* the number after {"frame": in a frame
FrameField(payload) == atoi(From(payload, Len(FrameName) + 1))

\* C14: the k-th FRAME_DATA message sent carries frame = k - 1, and
\* g_frame_count is the number of FRAME_DATA sends that succeeded, the
\* increment coming after the send of the tick.
C14_FrameNumbersCountSends ==
    /\ \A k \in 1..Len(FrameSends) :
          /\ SubSeq(FrameSends[k][2], 1, Len(FrameName)) = FrameName
          /\ FrameField(FrameSends[k][2]) = k - 1
    /\ (pc \in {"s_hdr", "s_pay"} /\ op = "send_frame") =>
          (tx_tag = MSG_FRAME_DATA /\ FrameField(tx_pay) = Len(FrameSends))
    /\ (gpc \in {"loop", "shot"} \/ (gpc = "frame" /\ pc # "idle")) =>
          g_frame_count = Len(FrameSends)
    /\ (gpc = "frame" /\ pc = "idle" /\ ret = 0) =>
          g_frame_count = Len(FrameSends) - 1

\* three frames and a screenshot message between them have been sent
C14_Witness ==
    /\ gpc = "loop"
    /\ Len(FrameSends) = 3
    /\ Len(sentLog) = 4
    /\ g_frame_count = 3

(***************************************************************************)
(* A reader of JSON text: Json*(text, p) is the position after the value   *)
(* that starts at p, or 0 when no value starts there.                      *)
(***************************************************************************)
CharAt(text, p) == IF 1 <= p /\ p <= Len(text) THEN text[p] ELSE 0

RECURSIVE JsonDigits(_, _)
JsonDigits(text, p) == IF IsDigit(CharAt(text, p)) THEN JsonDigits(text, p + 1) ELSE p

JsonNumber(text, p) ==
    LET q == IF CharAt(text, p) = 45 THEN p + 1 ELSE p IN
    IF ~IsDigit(CharAt(text, q)) THEN 0
    ELSE IF CharAt(text, q) = 48 THEN q + 1
    ELSE JsonDigits(text, q)

RECURSIVE JsonChars(_, _)
JsonChars(text, p) ==
    IF CharAt(text, p) = 34 THEN p + 1
    ELSE IF CharAt(text, p) < 32 \/ CharAt(text, p) = 92 THEN 0
    ELSE JsonChars(text, p + 1)

JsonString(text, p) == IF CharAt(text, p) = 34 THEN JsonChars(text, p + 1) ELSE 0

JsonWord(text, p, word) ==
    IF SubSeq(text, p, p + Len(word) - 1) = word /\ p + Len(word) - 1 <= Len(text)
    THEN p + Len(word) ELSE 0

RECURSIVE JsonValue(_, _)
RECURSIVE JsonElements(_, _)
RECURSIVE JsonMembers(_, _)

JsonValue(text, p) ==
    LET c == CharAt(text, p) IN
    IF c = 91 THEN (IF CharAt(text, p + 1) = 93 THEN p + 2 ELSE JsonElements(text, p + 1))
    ELSE IF c = 123 THEN (IF CharAt(text, p + 1) = 125 THEN p + 2 ELSE JsonMembers(text, p + 1))
    ELSE IF c = 34 THEN JsonString(text, p)
    ELSE IF c = 116 THEN JsonWord(text, p, TrueText)
    ELSE IF c = 102 THEN JsonWord(text, p, << 102, 97, 108, 115, 101 >>)
    ELSE IF c = 110 THEN JsonWord(text, p, << 110, 117, 108, 108 >>)
    ELSE JsonNumber(text, p)

JsonElements(text, p) ==
    LET q == JsonValue(text, p) IN
    IF q = 0 THEN 0
    ELSE IF CharAt(text, q) = 44 THEN JsonElements(text, q + 1)
    ELSE IF CharAt(text, q) = 93 THEN q + 1
    ELSE 0

JsonMembers(text, p) ==
    LET k == JsonString(text, p)
        q == IF k = 0 \/ CharAt(text, k) # 58 THEN 0 ELSE JsonValue(text, k + 1)
    IN  IF q = 0 THEN 0
        ELSE IF CharAt(text, q) = 44 THEN JsonMembers(text, q + 1)
        ELSE IF CharAt(text, q) = 125 THEN q + 1
        ELSE 0

JsonValid(text) == JsonValue(text, 1) = Len(text) + 1

\* the frame has been serialized
Rendered == gpc = "rendered"

\* C15: the document extract_vectors_to_json emits is valid JSON for every
\* combination of accepted and rejected drawsegs and vissprites: a comma
\* stands between two emitted elements and nowhere else.
C15_DocumentIsValidJson == Rendered => JsonValid(json.buf)

(***************************************************************************)
(* Reading the elements back out of the document.                          *)
(***************************************************************************)
\* the least member of a set of positions, 0 for the empty set
First(S) == IF S = {} THEN 0 ELSE CHOOSE i \in S : \A j \in S : i <= j

\* where needle first occurs in text at or after from; 0 if nowhere
Find(text, needle, from) ==
    First({ i \in from..(Len(text) - Len(needle) + 1) :
              SubSeq(text, i, i + Len(needle) - 1) = needle })

\* the text between the first open and the close that follows it
Between(text, open, close) ==
    LET a == Find(text, open, 1)
        b == IF a = 0 THEN 0 ELSE Find(text, close, a + Len(open))
    IN  IF b = 0 THEN << >> ELSE SubSeq(text, a + Len(open), b - 1)

\* the integers written in text from position p on, in order
RECURSIVE IntsIn(_, _)
IntsIn(text, p) ==
    LET a == First({ i \in p..Len(text) :
                       \/ IsDigit(text[i])
                       \/ text[i] = 45 /\ IsDigit(CharAt(text, i + 1)) })
        q == JsonDigits(text, a + 1)
    IN  IF a = 0 THEN << >>
        ELSE << atoi(SubSeq(text, a, q - 1)) >> \o IntsIn(text, q)

\* the integers of each open ... close group of text, group by group
RECURSIVE ReadTuples(_, _, _, _)
ReadTuples(text, open, close, p) ==
    LET a == Find(text, << open >>, p)
        b == IF a = 0 THEN 0 ELSE Find(text, << close >>, a)
    IN  IF b = 0 THEN << >>
        ELSE << IntsIn(SubSeq(text, a + 1, b - 1), 1) >>
                 \o ReadTuples(text, open, close, b + 1)

\* the elements of "walls" and of "entities" in the document
EmittedWalls == ReadTuples(Between(json.buf, WallsOpen, EntitiesOpen), 91, 93, 1)
EmittedEntities == ReadTuples(Between(json.buf, EntitiesOpen, WeaponOpen), 123, 125, 1)

\* C17: with viewwidth >= 1 and viewheight >= 1 every emitted wall tuple
\* has 0 <= x1 <= x2 < viewwidth and its four Y values in
\* [0, viewheight - 1], whatever the scales and heights are.
C17_WallTupleInView ==
    (Rendered /\ scene.viewwidth >= 1 /\ scene.viewheight >= 1) =>
        LET walls == EmittedWalls IN
        \A k \in 1..Len(walls) :
            LET t == walls[k] IN
            /\ Len(t) = 8
            /\ 0 <= t[1] /\ t[1] <= t[4] /\ t[4] < scene.viewwidth
            /\ \A j \in {2, 3, 5, 6} : 0 <= t[j] /\ t[j] <= scene.viewheight - 1

\* two walls are emitted, one of them with a scale that is not positive,
\* one with a top clamped to 0 and a bottom clamped to viewheight - 1
C17_Witness ==
    /\ Rendered
    /\ Len(EmittedWalls) = 2
    /\ \E k \in 1..Len(scene.drawsegs) :
          ~wall_rejected(scene, scene.drawsegs[k]) /\ scene.drawsegs[k].scale1 <= 0
    /\ \E k \in 1..2 :
          /\ EmittedWalls[k][5] = 0
          /\ EmittedWalls[k][6] = scene.viewheight - 1
          /\ scene.viewheight > 1

\* C18: with viewwidth >= 1 and viewheight >= 1 every emitted entity has
\* 0 <= x < viewwidth, 0 <= y_top <= y_bottom < viewheight and
\* height = max(5, y_bottom - y_top) >= 5, whatever x1/x2 order, gz, gzt
\* and scale the vissprite has.
C18_EntityInView ==
    (Rendered /\ scene.viewwidth >= 1 /\ scene.viewheight >= 1) =>
        \A k \in 1..Len(EmittedEntities) :
            LET t == EmittedEntities[k] IN
            /\ Len(t) = 6
            /\ 0 <= t[1] /\ t[1] < scene.viewwidth
            /\ 0 <= t[2] /\ t[2] <= t[3] /\ t[3] < scene.viewheight
            /\ t[4] >= 5
            /\ t[4] = (IF t[3] - t[2] > 5 THEN t[3] - t[2] ELSE 5)

\* the bucket d is the one the reference mapping gives the scale s:
\* 0 above 0x20000, 999 below 0x800, and between them
\* 999 - floor((s - 0x800) * 999 / (0x20000 - 0x800)), the product inside
\* 32 bits
ReferenceBucket(s, d) ==
    /\ 0 <= d /\ d <= 999
    /\ s > 131072 => d = 0
    /\ s < 2048 => d = 999
    /\ (2048 <= s /\ s <= 131072) =>
          /\ (s - 2048) * 999 <= INT_MAX
          /\ (999 - d) * 129024 <= (s - 2048) * 999
          /\ (s - 2048) * 999 < (999 - d + 1) * 129024
    /\ s = 131072 => d = 0
    /\ s = 2048 => d = 999
    /\ s = 66560 => (499 <= d /\ d <= 501)

\* C19: the depth bucket emitted for a wall (from scale1) and for a sprite
\* (from scale) is the reference mapping of the scale: 0 above 0x20000, 999
\* below 0x800 (non-positive scales included), else
\* 999 - ((scale - 0x800) * 999) / (0x20000 - 0x800); it lies in [0, 999],
\* 0x20000 gives 0, 0x800 gives 999 and 0x10400 gives 500 +/- 1.
C19_DepthBucket ==
    Rendered =>
        /\ \A k \in 1..Len(EmittedWalls) :
              /\ Len(EmittedWalls) = Len(scene.drawsegs)
              /\ ReferenceBucket(scene.drawsegs[k].scale1, EmittedWalls[k][7])
        /\ \A k \in 1..Len(EmittedEntities) :
              /\ Len(EmittedEntities) = Len(scene.vissprites)
              /\ ReferenceBucket(scene.vissprites[k].scale, EmittedEntities[k][6])

\* a wall and a sprite at scale 0x10400 have been emitted with bucket 500
C19_Witness ==
    /\ Rendered
    /\ Len(EmittedWalls) = 1 /\ Len(EmittedEntities) = 1
    /\ scene.drawsegs[1].scale1 = 66560 /\ scene.vissprites[1].scale = 66560
    /\ EmittedWalls[1][7] = 500 /\ EmittedEntities[1][6] = 500

\* the drawsegs and vissprites that pass the rejection rule, in input order
KeptWalls ==
    SelectSeq(scene.drawsegs,
              LAMBDA ds : ~(\/ ds.x1 < 0 \/ ds.x2 < 0
                            \/ ds.x1 >= scene.viewwidth \/ ds.x2 >= scene.viewwidth
                            \/ ds.x1 > ds.x2
                            \/ ~ds.curline \/ ~ds.frontsector))

KeptSprites ==
    SelectSeq(scene.vissprites,
              LAMBDA vis : ~(\/ vis.x1 < 0 \/ vis.x2 < 0
                             \/ vis.x1 >= scene.viewwidth
                             \/ vis.x2 >= scene.viewwidth))

\* C20: the emitted walls are the drawsegs that pass the rejection rule
\* (x1 < 0, x2 < 0, x1 >= viewwidth, x2 >= viewwidth, x1 > x2, no seg or no
\* front sector), in input order, none added, repeated or left out; the
\* emitted entities are the vissprites that pass their x-range test, in
\* input order.
C20_EmittedAreTheKeptInOrder ==
    Rendered =>
        LET walls == EmittedWalls
            entities == EmittedEntities
            keptWalls == KeptWalls
            keptSprites == KeptSprites
        IN  /\ Len(walls) = Len(keptWalls)
            /\ \A k \in 1..Len(keptWalls) :
                  /\ walls[k][1] = keptWalls[k].x1
                  /\ walls[k][4] = keptWalls[k].x2
                  /\ walls[k][8] = keptWalls[k].silhouette
            /\ Len(entities) = Len(keptSprites)
            /\ \A k \in 1..Len(keptSprites) :
                  /\ entities[k][1] = (keptSprites[k].x1 + keptSprites[k].x2) \div 2
                  /\ entities[k][5] = keptSprites[k].mobjtype

\* of a wall with x1 > x2 and a wall with x1 = x2 the second alone is
\* emitted, and two different sprites are emitted in their order
C20_Witness ==
    /\ Rendered
    /\ Len(scene.drawsegs) = 2
    /\ scene.drawsegs[1].x1 > scene.drawsegs[1].x2
    /\ scene.drawsegs[2].x1 = scene.drawsegs[2].x2
    /\ Len(EmittedWalls) = 1
    /\ EmittedWalls[1][1] = scene.drawsegs[2].x1
    /\ Len(EmittedEntities) = 2
    /\ EmittedEntities[1][5] # EmittedEntities[2][5]

\* a step in which doom_socket_recv_key reads the last byte of a KEY_EVENT
\* message of at most 255 payload bytes, the first message behind the
\* handshake
KeyEventRead ==
    /\ op = "recv_key"
    /\ pc \in {"k_rd_len", "k_rd_json"}
    /\ pc' = "idle"
    /\ msg_type' = MSG_KEY_EVENT
    /\ payload_len' <= 255
    /\ rdCount < rdCount'
    /\ rdCount' = SLen(InitEmpty) + 8 + payload_len'

\* the payload of the message that step completes
KeyPayload ==
    IF pc = "k_rd_json"
    THEN rx_buf \o SBytes(STake(inb, payload_len - rx_total))
    ELSE << >>

\* 1 if true occurs after "pressed": in the text, else 0
PressedOf(text) ==
    LET at == Find(text, PressedName, 1)
    IN  IF at # 0 /\ Find(text, TrueText, at + Len(PressedName)) # 0 THEN 1 ELSE 0

\* the decimal integer after "key": and blanks in the text, 0 without one
KeyOf(text) ==
    LET at == Find(text, KeyName, 1)
        rest == IF at = 0 THEN << >> ELSE SkipWhile(From(text, at + Len(KeyName)), {32, 9})
        ints == IntsIn(rest, 1)
    IN  IF rest # << >> /\ (IsDigit(rest[1]) \/ rest[1] = 45) /\ ints # << >>
        THEN ints[1] ELSE 0

\* C21: a KEY_EVENT with payload_len <= 255 makes doom_socket_recv_key
\* return 1 with pressed = 1 if true occurs after "pressed": and 0
\* otherwise, and key = the decimal integer after "key": unchanged, whatever
\* integer that is; a missing field gives 0.
C21_KeyEventIsParsed ==
    [][KeyEventRead =>
          /\ ret' = 1
          /\ pressed' = PressedOf(KeyPayload)
          /\ key' = KeyOf(KeyPayload)]_vars

\* a step in which doom_socket_recv_key reads the last byte of the header
\* of a KEY_EVENT
KeyHeaderRead ==
    /\ op = "recv_key"
    /\ pc = "k_rd_len"
    /\ msg_type = MSG_KEY_EVENT
    /\ rdCount < rdCount'
    /\ rx_total + (rdCount' - rdCount) = 4

\* C22: a KEY_EVENT with payload_len >= 256 is refused with -1 before a
\* payload byte is read or an output written, every payload_len in 0..255
\* is accepted, and then neither the read of the payload nor the NUL behind
\* it touches an index outside json_buf[0..255].
C22_KeyEventFitsTheBuffer ==
    [][/\ (KeyHeaderRead /\ payload_len' >= 256) =>
             /\ pc' = "idle" /\ ret' = -1
             /\ pressed' = pressed /\ key' = key
             /\ rx_total' = 0 /\ rx_buf' = << >>
       /\ (KeyHeaderRead /\ payload_len' <= 255) =>
             \/ pc' = "k_rd_json"
             \/ payload_len' = 0 /\ pc' = "idle" /\ ret' = 1
       /\ pc = "k_rd_json" =>
             /\ payload_len <= 255
             /\ Len(rx_buf) = rx_total
             /\ rx_total + (rdCount' - rdCount) <= payload_len
       /\ (pc = "k_rd_json" /\ pc' = "idle" /\ ret' = 1) =>
             (0 <= payload_len /\ payload_len <= 255)]_vars

\* a key event of 255 bytes has been accepted and the one of 256 bytes
\* behind it refused
C22_Witness ==
    /\ op = "recv_key" /\ pc = "idle"
    /\ ret = -1
    /\ payload_len = 256
    /\ rdCount = SLen(InitEmpty) + 8 + 255 + 8
    /\ pressed = 0 /\ key = 0

\* a step in which a call of doom_socket_recv_key returns 1
KeyReturned == op' = "recv_key" /\ pc # "idle" /\ pc' = "idle" /\ ret' = 1

\* a step that is a whole call of doom_socket_recv_key: the handle is
\* disconnected, or select() reports nothing or fails
NoDataCall == op' = "recv_key" /\ recvsLeft' # recvsLeft /\ pc' = "idle"

\* C24: doom_socket_recv_key writes *pressed and *key only when it returns
\* 1; on every path that returns 0 or -1 the outputs and the handle are
\* left as they were, and a call that finds the handle disconnected or the
\* socket not ready consumes no byte of the inbound stream.
C24_OutputsOnlyWithAKey ==
    [][/\ (op' = "recv_key" /\ ~KeyReturned) =>
             /\ pressed' = pressed
             /\ key' = key
             /\ g_socket_fd' = g_socket_fd
       /\ (op' = "recv_key" /\ pc # "idle" /\ pc' = "idle") => ret' \in {-1, 0, 1}
       /\ NoDataCall =>
             /\ ret' = 0
             /\ rdCount' = rdCount
             /\ inb' = inb]_vars

\* after a key event gave (1, 97) a call has returned -1 on SHUTDOWN and
\* the outputs are still (1, 97)
C24_Witness ==
    /\ op = "recv_key" /\ pc = "idle"
    /\ ret = -1
    /\ msg_type = MSG_SHUTDOWN
    /\ pressed = 1 /\ key = 97
    /\ g_socket_fd >= 0

\* C23: however addKeyToQueue and DG_GetKey interleave on the 16 slots,
\* both indices stay in 0..15, DG_GetKey returns 0 exactly when no queued
\* event is unread, and the events DG_GetKey hands out are the queued ones,
\* each once, in order and intact: none lost, repeated or overwritten,
\* however many are queued between two reads.
C23_KeyQueueIsAFifo ==
    gpc = "keys" =>
        /\ s_KeyQueueWriteIndex \in 0..(KEYQUEUE_SIZE - 1)
        /\ s_KeyQueueReadIndex \in 0..(KEYQUEUE_SIZE - 1)
        /\ Len(got) <= Len(queued)
        /\ got = SubSeq(queued, 1, Len(got))
        /\ (op = "DG_GetKey" /\ ret = 0) => got = queued
        /\ (op = "DG_GetKey" /\ ret = 1) =>
              (got # << >> /\ << pressed, key >> = got[Len(got)])

====
